---- MODULE Spec2Model ----
(***************************************************************************)
(* Model of the conversational pipeline of the Stevie Awards AI service:   *)
(* the SSE routes /chat and /answer over the streaming generators, the     *)
(* LLM gateway with its retry decorator, the intent classifier, the enum   *)
(* field validator and field extraction.                                   *)
(*                                                                         *)
(* Each part has its own specification over the shared variables:          *)
(*   SpecStream   - one streaming turn of /chat or /answer                 *)
(*   SpecGateway  - one chat_completion / create_embedding call and the    *)
(*                  classification built on it                             *)
(*   SpecValidate - _validate_enum_field on bounded strings                *)
(*   SpecExtract  - extract-fields requests over a running context         *)
(*   SpecMerge    - the merge step applied repeatedly to its own result    *)
(*   SpecQuestion - one generate-question request                          *)
(*   SpecPrompt   - _build_user_prompt on bounded histories                *)
(*   SpecExplain  - one call of generate_explanations                      *)
(*   SpecTurns    - extract_fields calls in flight at the same time        *)
(***************************************************************************)
EXTENDS Integers, Sequences, FiniteSets, TLC

VARIABLES
    \* ---- streaming turn (routes/unified_chatbot.py, routes/chatbot.py)
    endpoint,        \* "chat" | "answer"
    events,          \* SSE events written so far, in order
    routePc,         \* position of the route's event_generator
    mgrPc,           \* position of generate_response_stream / generate_answer_stream
    gwPc,            \* position of OpenAIClient.chat_completion_stream
    running,         \* TRUE while a pull of the consumer is being served
    streamRequests,  \* provider streaming requests issued (create(stream=True))
    provChunks,      \* provider chunks consumed so far
    failure,         \* exception the provider raised in this turn, or "none"
    disconnected,    \* the consumer closed the stream
    \* ---- gateway call with retry (services/openai_client.py)
    op,              \* "chat_completion" | "create_embedding"
    gPc,             \* "idle" | "attempting" | "returned" | "raised"
    requests,        \* outcome of each provider request of the call, in order
    waits,           \* seconds slept between the attempts, in order
    gOut,            \* the value returned or the exception raised by the call
    \* ---- intent classification (services/intent_classifier.py)
    cPc,             \* "idle" | "start" | "calling" | "done"
    cResult,         \* what classify_intent returned, or Raised(e)
    \* ---- enum validation (FieldExtractor._validate_enum_field)
    vField,          \* the field name passed
    vInput,          \* the string passed
    vPc,             \* "idle" | "start" | "done"
    vResult,         \* Some(canonical value) or None
    \* ---- field extraction (FieldExtractor.extract_fields)
    ctx,             \* the context passed to the current turn
    eReply,          \* what the gateway call of the turn came back with
    ePc,             \* "idle" | "ready" | "done"
    eOut,            \* what extract_fields returned, or the exception it raised
    eResponse,       \* the response of the extract-fields route
    turns,           \* turns completed so far
    \* ---- the merge step of extract_fields applied repeatedly
    mCtx,            \* the context the first application starts from
    mValidated,      \* the validated fields applied each time
    mOuts,           \* the outcomes of the applications so far
    mHash,           \* iteration orders the interpreter has shown so far
    \* ---- question generation (QuestionGenerator.generate_question)
    qCtx,            \* the context of the request
    qPc,             \* "idle" | "ready" | "done"
    qNext,           \* what _get_next_field_to_collect returned
    qGateway,        \* what the gateway call came back with
    qCalls,          \* gateway calls made
    qOut,            \* what generate_question returned, or what it raised
    qResponse,       \* what the generate-question route answered
    \* ---- prompt composition (ConversationManager._build_user_prompt)
    intent,          \* the intent type of the turn
    history,         \* conversation_history of the request
    kbArticles,      \* number of kb_articles of the request, or "None"
    userContext,     \* user_context of the request
    prompt,          \* the prompt built, or the exception raised
    \* ---- match explanations (ExplanationGenerator.generate_explanations)
    xCtx,            \* the context of the request
    xCategories,     \* the categories of the request, in order
    xReplies,        \* what the gateway call for each category came back with
    xOut,            \* the explanations returned
    xPc,             \* "idle" | "ready" | "done"
    \* ---- two extract_fields turns in flight on one event loop
    tCtx,            \* the context each turn's request carries
    tPc,             \* per turn: "idle" | "ready" | "awaiting" | "done"
    tFrame,          \* per coroutine frame: the locals held across the await
    tReply,          \* what each turn's gateway call came back with
    tOut             \* what each turn returned

streamVars == <<endpoint, events, routePc, mgrPc, gwPc, running,
                streamRequests, provChunks, failure, disconnected>>

gwVars == <<op, gPc, requests, waits, gOut>>
classifyVars == <<cPc, cResult>>

valVars == <<vField, vInput, vPc, vResult>>

extVars == <<ctx, eReply, ePc, eOut, eResponse, turns>>

mergeVars == <<mCtx, mValidated, mOuts, mHash>>
questionVars == <<qCtx, qPc, qNext, qGateway, qCalls, qOut, qResponse>>
promptInputs == <<intent, history, kbArticles, userContext>>
promptVars == <<promptInputs, prompt>>
explainVars == <<xCtx, xCategories, xReplies, xOut, xPc>>
turnVars == <<tCtx, tPc, tFrame, tReply, tOut>>

nonStreamVars == <<gwVars, classifyVars, valVars, extVars, mergeVars, questionVars,
                   promptInputs, explainVars, turnVars>>
nonGatewayVars == <<streamVars, valVars, extVars, mergeVars, questionVars,
                    promptVars, explainVars, turnVars>>
nonValidateVars == <<streamVars, gwVars, classifyVars, extVars, mergeVars, questionVars,
                     promptVars, explainVars, turnVars>>
nonExtractVars == <<streamVars, gwVars, classifyVars, valVars, mergeVars, questionVars,
                    promptVars, explainVars, turnVars>>
nonMergeVars == <<streamVars, gwVars, classifyVars, valVars, extVars, questionVars,
                  promptVars, explainVars, turnVars>>
nonQuestionVars == <<streamVars, gwVars, classifyVars, valVars, extVars, mergeVars,
                     promptVars, explainVars, turnVars>>
nonPromptVars == <<streamVars, gwVars, classifyVars, valVars, extVars, mergeVars,
                   questionVars, explainVars, turnVars>>
nonExplainVars == <<streamVars, gwVars, classifyVars, valVars, extVars, mergeVars,
                    questionVars, promptVars, turnVars>>
nonTurnVars == <<streamVars, gwVars, classifyVars, valVars, extVars, mergeVars,
                 questionVars, promptVars, explainVars>>

vars == <<streamVars, gwVars, classifyVars, valVars, extVars, mergeVars, questionVars,
          promptVars, explainVars, turnVars>>

\* ------------------------------------------------------------------------
\* Bounds
\* ------------------------------------------------------------------------
MaxChunks == 3

\* ------------------------------------------------------------------------
\* Exceptions: the part of Python's class hierarchy the handlers depend on.
\* OpenAIError and every other error are Exceptions; GeneratorExit (thrown
\* into a generator that is closed) is a BaseException only.
\* ------------------------------------------------------------------------
ProviderErrors == {"OpenAIError"}
OtherErrors == {"Exception"}
StreamErrors == ProviderErrors \cup OtherErrors
\* raised by the code of the service itself
ProgrammingErrors == {"AttributeError"}

IsException(e) == e \in StreamErrors \cup ProgrammingErrors

\* Variables of the parts a specification does not exercise stay at rest.
GwIdle ==
    /\ op = "none"
    /\ gPc = "idle"
    /\ requests = << >>
    /\ waits = << >>
    /\ gOut = "none"

ClassifyIdle ==
    /\ cPc = "idle"
    /\ cResult = "none"

ValidateIdle ==
    /\ vField = "none"
    /\ vInput = << >>
    /\ vPc = "idle"
    /\ vResult = [some |-> FALSE, v |-> << >>]

ExtractIdle ==
    /\ ctx = "none"
    /\ eReply = "none"
    /\ ePc = "idle"
    /\ eOut = "none"
    /\ eResponse = "none"
    /\ turns = 0

MergeIdle ==
    /\ mCtx = "none"
    /\ mValidated = "none"
    /\ mOuts = << >>
    /\ mHash = {}

QuestionIdle ==
    /\ qCtx = "none"
    /\ qPc = "idle"
    /\ qNext = "none"
    /\ qGateway = "none"
    /\ qCalls = 0
    /\ qOut = "none"
    /\ qResponse = "none"

PromptIdle ==
    /\ intent = "none"
    /\ history = << >>
    /\ kbArticles = "None"
    /\ userContext = "none"
    /\ prompt = "none"

ExplainIdle ==
    /\ xCtx = "none"
    /\ xCategories = << >>
    /\ xReplies = << >>
    /\ xOut = << >>
    /\ xPc = "idle"

TurnsIdle ==
    /\ tCtx = << >>
    /\ tPc = << >>
    /\ tFrame = << >>
    /\ tReply = << >>
    /\ tOut = << >>

StreamIdle ==
    /\ endpoint = "none"
    /\ events = << >>
    /\ routePc = "idle"
    /\ mgrPc = "idle"
    /\ gwPc = "idle"
    /\ running = FALSE
    /\ streamRequests = 0
    /\ provChunks = 0
    /\ failure = "none"
    /\ disconnected = FALSE

\* ------------------------------------------------------------------------
\* Gateway: chat_completion and create_embedding under the retry decorator
\*   @retry(stop=stop_after_attempt(3),
\*          wait=wait_exponential(multiplier=1, min=2, max=10),
\*          retry=retry_if_exception_type(OpenAIError), reraise=True)
\* ------------------------------------------------------------------------
StopAfterAttempt == 3
WaitMultiplier == 1
WaitMin == 2
WaitMax == 10

\* Provider errors, all of them subclasses of OpenAIError: the first three
\* are transient (rate limit, timeout, 5xx), the last two are not.
TransientErrors == {"RateLimitError", "APITimeoutError", "InternalServerError"}
NonTransientErrors == {"AuthenticationError", "BadRequestError"}
OpenAIErrors == TransientErrors \cup NonTransientErrors
\* An exception of the attempt's own code that is no OpenAIError (the
\* response carries no content and len(content) raises).
NonProviderErrors == {"TypeError"}
AttemptErrors == OpenAIErrors \cup NonProviderErrors

Min2(a, b) == IF a < b THEN a ELSE b
Max2(a, b) == IF a > b THEN a ELSE b

\* retry=retry_if_exception_type(OpenAIError)
RetryIfTransientOnly(e) == e \in TransientErrors
RetryIf(e) == e \in OpenAIErrors

\* stop=stop_after_attempt(3): the attempt just made was the last one
StopNever(n) == FALSE
Stop(n) == n >= StopAfterAttempt

\* wait=wait_exponential(multiplier=1, min=2, max=10) after attempt n
WaitExponential(n) == Max2(WaitMin, Min2(WaitMultiplier * 2^(n - 1), WaitMax))

\* ---- replies of the model to the classification prompt
Intents == {"question", "information", "mixed"}
RawIntents == Intents \cup {"greeting", "MISSING", "NULL"}

\* floats, in hundredths, with NaN
Num(v) == [nan |-> FALSE, v |-> v]
NaN == [nan |-> TRUE, v |-> 0]

MaxConfSteps == 2
ConfNumbers == {25 * k : k \in (0 - MaxConfSteps)..(4 + MaxConfSteps)} \cup {95}
RawConf(t, n, str) == [t |-> t, n |-> n, s |-> str]
RawConfidences ==
    {RawConf("num", n, "") : n \in ConfNumbers}
        \cup {RawConf("str", 0, x) : x \in {"0.7", "2", "nan", "high"}}
        \cup {RawConf("nan", 0, ""), RawConf("null", 0, ""), RawConf("missing", 0, "")}

Reply(k, i, c) == [kind |-> k, intent |-> i, confidence |-> c]
ClassifyReplies ==
    {Reply("text", "MISSING", RawConf("missing", 0, "")),
     Reply("nonobject", "MISSING", RawConf("missing", 0, ""))}
        \cup {Reply("object", i, c) : i \in RawIntents, c \in RawConfidences}

EmbeddingReply == Reply("embedding", "MISSING", RawConf("missing", 0, ""))
RepliesFor(o) == IF o = "chat_completion" THEN ClassifyReplies ELSE {EmbeddingReply}

GatewayInit ==
    /\ StreamIdle
    /\ ValidateIdle
    /\ ExtractIdle
    /\ MergeIdle
    /\ QuestionIdle
    /\ PromptIdle
    /\ ExplainIdle
    /\ TurnsIdle
    /\ op = "none"
    /\ gPc = "idle"
    /\ requests = << >>
    /\ waits = << >>
    /\ gOut = "none"
    /\ cPc = "idle"
    /\ cResult = "none"

\* routes/embeddings.py: generate_embedding awaits create_embedding
EmbedCall ==
    /\ gPc = "idle"
    /\ cPc = "idle"
    /\ op' = "create_embedding"
    /\ gPc' = "attempting"
    /\ UNCHANGED <<requests, waits, gOut, classifyVars>>
    /\ UNCHANGED nonGatewayVars

\* classify_intent builds its prompts and awaits chat_completion
ClassifyCall ==
    /\ gPc = "idle"
    /\ cPc = "idle"
    /\ cPc' = "calling"
    /\ op' = "chat_completion"
    /\ gPc' = "attempting"
    /\ UNCHANGED <<requests, waits, gOut, cResult>>
    /\ UNCHANGED nonGatewayVars

\* One attempt of the decorated call: a provider request is issued; it
\* succeeds and the call returns, or it raises e and the decorator either
\* sleeps and attempts again or lets e out.
GwAttempt ==
    /\ gPc = "attempting"
    /\ \E o \in {"ok"} \cup AttemptErrors :
          /\ requests' = Append(requests, o)
          /\ IF o = "ok"
             THEN /\ gPc' = "returned"
                  /\ gOut' \in RepliesFor(op)
                  /\ waits' = waits
             ELSE IF RetryIf(o) /\ ~Stop(Len(requests) + 1)
             THEN /\ waits' = Append(waits, WaitExponential(Len(requests) + 1))
                  /\ UNCHANGED <<gPc, gOut>>
             ELSE /\ gPc' = "raised"
                  /\ gOut' = o
                  /\ waits' = waits
    /\ UNCHANGED <<op, classifyVars>>
    /\ UNCHANGED nonGatewayVars

\* ------------------------------------------------------------------------
\* Intent classification: parsing and normalising the model's reply
\* ------------------------------------------------------------------------
\* Python's comparison of floats: every comparison with NaN is false.
PyLt(a, b) == ~a.nan /\ ~b.nan /\ a.v < b.v
\* min(a, b) and max(a, b) keep a unless b is strictly smaller (larger)
PyMin(a, b) == IF PyLt(b, a) THEN b ELSE a
PyMax(a, b) == IF PyLt(a, b) THEN b ELSE a

Ok(x) == [err |-> "none", val |-> x]
Err(e) == [err |-> e, val |-> Num(0)]

\* float(x) of the strings the replies carry
FloatOfString(x) ==
    CASE x = "0.7" -> Ok(Num(70))
      [] x = "2" -> Ok(Num(200))
      [] x = "nan" -> Ok(NaN)
      [] OTHER -> Err("ValueError")

\* float(result.get("confidence", 0.8))
FloatOfConfidence(c) ==
    CASE c.t = "missing" -> Ok(Num(80))
      [] c.t = "num" -> Ok(Num(c.n))
      [] c.t = "nan" -> Ok(NaN)
      [] c.t = "str" -> FloatOfString(c.s)
      [] OTHER -> Err("TypeError")

\* max(0.0, min(1.0, confidence))
ClampNothing(c) == c
Clamp(c) == PyMax(Num(0), PyMin(Num(100), c))

\* if result.get("intent") not in [...]: result["intent"] = "information"
NormalizeIntent(i) == IF i \in Intents THEN i ELSE "information"

Result(i, c, r) == [raised |-> "none", intent |-> i, confidence |-> c, reasoning |-> r]
Raised(e) == [raised |-> e, intent |-> "none", confidence |-> Num(0), reasoning |-> "none"]
ParseFallback == Result("information", Num(50), "Failed to parse LLM response, defaulting to information intent")
FailureFallback == Result("information", Num(50), "Classification failed")

\* The statements of the inner try on the reply text: json.loads, the intent
\* check and the confidence clamp. The value is the result or the exception.
ParseReply(reply) ==
    CASE reply.kind = "text" -> Err("JSONDecodeError")
      [] reply.kind = "nonobject" -> Err("AttributeError")
      [] OTHER ->
            LET c == FloatOfConfidence(reply.confidence)
            IN  IF c.err # "none"
                THEN Err(c.err)
                ELSE Ok(Result(NormalizeIntent(reply.intent), Clamp(c.val), "model"))

\* The handlers of classify_intent. The outer one, except Exception around
\* the whole body, takes whatever the gateway call or the parse let out.
HandleOuterMissing(e) == Raised(e)
HandleOuter(e) == FailureFallback

\* The inner one, except json.JSONDecodeError around the parse; any other
\* exception of the parse goes on to the outer handler.
HandleInner(e) ==
    IF e = "JSONDecodeError" THEN ParseFallback ELSE HandleOuter(e)

\* classify_intent after the gateway call came back
ClassifyReturn ==
    /\ cPc = "calling"
    /\ gPc \in {"returned", "raised"}
    /\ cPc' = "done"
    /\ cResult' =
          IF gPc = "raised"
          THEN HandleOuter(gOut)
          ELSE LET r == ParseReply(gOut)
               IN  IF r.err # "none" THEN HandleInner(r.err) ELSE r.val
    /\ UNCHANGED gwVars
    /\ UNCHANGED nonGatewayVars

GatewayNext ==
    \/ EmbedCall
    \/ ClassifyCall
    \/ GwAttempt
    \/ ClassifyReturn

SpecGateway == GatewayInit /\ [][GatewayNext]_vars

\* ------------------------------------------------------------------------
\* Properties of the gateway call and of classification
\* ------------------------------------------------------------------------
Failed(i) == requests[i] # "ok"

\* C3: one call of chat_completion or create_embedding issues at most 3
\* provider requests; no request follows a successful one, whose result the
\* call returns; after 3 requests failed with a provider error the call
\* raises that error.
C3_AtMostThreeRequests ==
    /\ Len(requests) <= 3
    /\ \A i \in 1..Len(requests) : ~Failed(i) => i = Len(requests)
    /\ (requests # << >> /\ ~Failed(Len(requests)))
          => (gPc = "returned" /\ gOut \in RepliesFor(op))
    /\ gPc = "returned" => (requests # << >> /\ ~Failed(Len(requests)))
    /\ (Len(requests) = 3 /\ \A i \in 1..3 : requests[i] \in OpenAIErrors)
          => (gPc = "raised" /\ gOut = requests[3])

C3_Witness ==
    /\ op = "create_embedding"
    /\ Len(requests) = 3
    /\ \A i \in 1..3 : requests[i] \in OpenAIErrors
    /\ gPc = "raised"

\* C4 (as claimed): a chat_completion request that fails with a non-transient
\* error is the last request of the call, which raises that error.
C4_NonTransientNotRetried ==
    op = "chat_completion" =>
        \A i \in 1..Len(requests) :
            requests[i] \in NonTransientErrors
                => (i = Len(requests) /\ gPc = "raised" /\ gOut = requests[i])

\* C4 (amended): a chat_completion request that fails with any provider
\* error, transient or not, is followed by another attempt unless it was the
\* third request, after which the error is raised; only an exception that is
\* no provider error is raised after its single request.
C4_EveryProviderErrorRetried ==
    op = "chat_completion" =>
        \A i \in 1..Len(requests) :
            /\ (requests[i] \in OpenAIErrors /\ i < StopAfterAttempt)
                  => (i < Len(requests) \/ gPc = "attempting")
            /\ (requests[i] \in OpenAIErrors /\ i = StopAfterAttempt)
                  => (i = Len(requests) /\ gPc = "raised" /\ gOut = requests[i])
            /\ requests[i] \in NonProviderErrors
                  => (i = Len(requests) /\ gPc = "raised" /\ gOut = requests[i])

C4_Witness ==
    /\ op = "chat_completion"
    /\ Len(requests) = 2
    /\ requests[1] = "AuthenticationError"
    /\ requests[2] = "TypeError"
    /\ gPc = "raised"

\* the gateway call failed, or its reply is not a JSON object
Unparseable == IF gPc = "raised" THEN TRUE ELSE gOut.kind # "object"

\* C7: classify_intent never raises, and when the gateway call failed or the
\* reply is not the expected JSON object it returns intent "information"
\* with confidence 0.5.
C7_ClassifyFallback ==
    cPc = "done" =>
        /\ cResult.raised = "none"
        /\ Unparseable =>
              (cResult.intent = "information" /\ cResult.confidence = Num(50))

C7_Witness ==
    /\ cPc = "done"
    /\ gPc = "raised"
    /\ Len(requests) = 3
    /\ cResult.confidence = Num(50)

\* what the reply's confidence is as a number, when the reply is an object
\* whose confidence converts to a float
ReplyConfidence == FloatOfConfidence(gOut.confidence).val

\* C8: every result of classify_intent has its intent among question,
\* information and mixed, any other intent of the reply being replaced by
\* "information", and a confidence within [0, 1], a value below 0 becoming 0
\* and a value above 1 becoming 1.
C8_IntentAndConfidenceNormalized ==
    (cPc = "done" /\ cResult.raised = "none") =>
        /\ cResult.intent \in Intents
        /\ ~cResult.confidence.nan
        /\ cResult.confidence.v >= 0
        /\ cResult.confidence.v <= 100
        /\ (~Unparseable /\ cResult.reasoning = "model") =>
              /\ cResult.intent =
                    (IF gOut.intent \in Intents THEN gOut.intent ELSE "information")
              /\ (~ReplyConfidence.nan /\ ReplyConfidence.v < 0)
                    => cResult.confidence.v = 0
              /\ (~ReplyConfidence.nan /\ ReplyConfidence.v > 100)
                    => cResult.confidence.v = 100
              /\ (~ReplyConfidence.nan /\ ReplyConfidence.v \in 0..100)
                    => cResult.confidence.v = ReplyConfidence.v

C8_Witness ==
    /\ cPc = "done"
    /\ gPc = "returned"
    /\ gOut.kind = "object"
    /\ gOut.intent = "greeting"
    /\ gOut.confidence = RawConf("num", 150, "")
    /\ cResult.intent = "information"
    /\ cResult.confidence = Num(100)

\* ------------------------------------------------------------------------
\* Strings are sequences of one-character strings, so that lower() and
\* replace() act on them character by character.
\* ------------------------------------------------------------------------
LowerAlphabet == <<"a", "b", "c", "d", "e", "f", "g", "h", "i", "j", "k", "l", "m",
                   "n", "o", "p", "q", "r", "s", "t", "u", "v", "w", "x", "y", "z">>
UpperAlphabet == <<"A", "B", "C", "D", "E", "F", "G", "H", "I", "J", "K", "L", "M",
                   "N", "O", "P", "Q", "R", "S", "T", "U", "V", "W", "X", "Y", "Z">>

UpperLetters == {UpperAlphabet[i] : i \in 1..26}
LowerLetters == {LowerAlphabet[i] : i \in 1..26}
ToLower == [c \in UpperLetters |-> LowerAlphabet[CHOOSE i \in 1..26 : UpperAlphabet[i] = c]]
ToUpper == [c \in LowerLetters |-> UpperAlphabet[CHOOSE i \in 1..26 : LowerAlphabet[i] = c]]

LowerChar(c) == IF c \in UpperLetters THEN ToLower[c] ELSE c
UpperChar(c) == IF c \in LowerLetters THEN ToUpper[c] ELSE c

\* str.lower()
StrLower(str) == [i \in 1..Len(str) |-> LowerChar(str[i])]
\* str.replace(a, b) for one-character a and b
StrReplace(str, a, b) == [i \in 1..Len(str) |-> IF str[i] = a THEN b ELSE str[i]]

\* ------------------------------------------------------------------------
\* The enumerations of models/user_context.py, members in definition order
\* ------------------------------------------------------------------------
Member(n, v) == [name |-> n, value |-> v]
Geography == <<
    Member(<<"W", "O", "R", "L", "D", "W", "I", "D", "E">>,
           <<"w", "o", "r", "l", "d", "w", "i", "d", "e">>),
    Member(<<"A", "S", "I", "A", "_", "P", "A", "C", "I", "F", "I", "C", "_", "M", "I", "D", "D", "L", "E", "_", "E", "A", "S", "T", "_", "N", "O", "R", "T", "H", "_", "A", "F", "R", "I", "C", "A">>,
           <<"a", "s", "i", "a", "_", "p", "a", "c", "i", "f", "i", "c", "_", "m", "i", "d", "d", "l", "e", "_", "e", "a", "s", "t", "_", "n", "o", "r", "t", "h", "_", "a", "f", "r", "i", "c", "a">>),
    Member(<<"E", "U", "R", "O", "P", "E">>,
           <<"e", "u", "r", "o", "p", "e">>),
    Member(<<"L", "A", "T", "I", "N", "_", "A", "M", "E", "R", "I", "C", "A">>,
           <<"l", "a", "t", "i", "n", "_", "a", "m", "e", "r", "i", "c", "a">>),
    Member(<<"U", "S", "A">>,
           <<"u", "s", "a">>),
    Member(<<"C", "A", "N", "A", "D", "A">>,
           <<"c", "a", "n", "a", "d", "a">>) >>
OrganizationType == <<
    Member(<<"F", "O", "R", "_", "P", "R", "O", "F", "I", "T">>,
           <<"f", "o", "r", "_", "p", "r", "o", "f", "i", "t">>),
    Member(<<"N", "O", "N", "_", "P", "R", "O", "F", "I", "T">>,
           <<"n", "o", "n", "_", "p", "r", "o", "f", "i", "t">>),
    Member(<<"G", "O", "V", "E", "R", "N", "M", "E", "N", "T">>,
           <<"g", "o", "v", "e", "r", "n", "m", "e", "n", "t">>) >>
OrganizationSize == <<
    Member(<<"S", "M", "A", "L", "L">>,
           <<"s", "m", "a", "l", "l">>),
    Member(<<"M", "E", "D", "I", "U", "M">>,
           <<"m", "e", "d", "i", "u", "m">>),
    Member(<<"L", "A", "R", "G", "E">>,
           <<"l", "a", "r", "g", "e">>) >>
NominationSubject == <<
    Member(<<"O", "R", "G", "A", "N", "I", "Z", "A", "T", "I", "O", "N">>,
           <<"o", "r", "g", "a", "n", "i", "z", "a", "t", "i", "o", "n">>),
    Member(<<"T", "E", "A", "M">>,
           <<"t", "e", "a", "m">>),
    Member(<<"I", "N", "D", "I", "V", "I", "D", "U", "A", "L">>,
           <<"i", "n", "d", "i", "v", "i", "d", "u", "a", "l">>),
    Member(<<"P", "R", "O", "D", "U", "C", "T">>,
           <<"p", "r", "o", "d", "u", "c", "t">>) >>
OperatingScope == <<
    Member(<<"L", "O", "C", "A", "L">>,
           <<"l", "o", "c", "a", "l">>),
    Member(<<"R", "E", "G", "I", "O", "N", "A", "L">>,
           <<"r", "e", "g", "i", "o", "n", "a", "l">>),
    Member(<<"N", "A", "T", "I", "O", "N", "A", "L">>,
           <<"n", "a", "t", "i", "o", "n", "a", "l">>),
    Member(<<"I", "N", "T", "E", "R", "N", "A", "T", "I", "O", "N", "A", "L">>,
           <<"i", "n", "t", "e", "r", "n", "a", "t", "i", "o", "n", "a", "l">>) >>
TechOrientation == <<
    Member(<<"T", "E", "C", "H", "_", "C", "O", "M", "P", "A", "N", "Y">>,
           <<"t", "e", "c", "h", "_", "c", "o", "m", "p", "a", "n", "y">>),
    Member(<<"T", "E", "C", "H", "_", "U", "S", "E", "R">>,
           <<"t", "e", "c", "h", "_", "u", "s", "e", "r">>),
    Member(<<"N", "O", "N", "_", "T", "E", "C", "H">>,
           <<"n", "o", "n", "_", "t", "e", "c", "h">>) >>

EnumFields == {"geography", "org_type", "org_size", "nomination_subject",
               "operating_scope", "tech_orientation"}

\* FieldExtractor.ENUM_MAPPINGS
ENUM_MAPPINGS(f) ==
    CASE f = "geography" -> Geography
      [] f = "org_type" -> OrganizationType
      [] f = "org_size" -> OrganizationSize
      [] f = "nomination_subject" -> NominationSubject
      [] f = "operating_scope" -> OperatingScope
      [] f = "tech_orientation" -> TechOrientation

Some(v) == [some |-> TRUE, v |-> v]
None == [some |-> FALSE, v |-> << >>]

\* str(value).lower().replace(" ", "_").replace("-", "_")
NormalizeKeepHyphen(str) == StrReplace(StrLower(str), " ", "_")
NormalizeValue(str) == StrReplace(StrReplace(StrLower(str), " ", "_"), "-", "_")

\* The loop of _validate_enum_field over the members: the value of the first
\* member whose value or lower-cased name equals the normalised input.
FirstMatch(members, value_lower) ==
    LET hits == {i \in 1..Len(members) :
                    \/ members[i].value = value_lower
                    \/ StrLower(members[i].name) = value_lower}
    IN  IF hits = {}
        THEN None
        ELSE Some(members[CHOOSE i \in hits : \A j \in hits : i <= j].value)

\* _validate_enum_field(field_name, value) for a string value
ValidateEnumField(f, str) ==
    IF f \notin EnumFields
    THEN Some(str)
    ELSE FirstMatch(ENUM_MAPPINGS(f), NormalizeValue(str))

\* ------------------------------------------------------------------------
\* Inputs of the validator: every member's value and name in the usual
\* spellings, the strings within MaxEdits single-character edits of a value,
\* padded values, members of the other enumerations and unrelated words.
\* ------------------------------------------------------------------------
MaxEdits == 1

Cases == {"lower", "upper", "title"}
Separators == {"_", " ", "-"}

Styled(v, case, sep) ==
    [i \in 1..Len(v) |->
        IF v[i] = "_" THEN sep
        ELSE IF case = "upper" THEN UpperChar(v[i])
        ELSE IF case = "title" /\ (i = 1 \/ v[IF i = 1 THEN 1 ELSE i - 1] = "_")
             THEN UpperChar(v[i])
        ELSE v[i]]

Styles(v) == {Styled(v, c, sp) : c \in Cases, sp \in Separators}

\* characters a position of a value may be edited to
EditChars(c) ==
    (IF c \in Separators THEN Separators ELSE {UpperChar(c), LowerChar(c)}) \cup {"x"}

Substituted(w, i, c) == [j \in 1..Len(w) |-> IF j = i THEN c ELSE w[j]]
Deleted(w, i) == [j \in 1..(Len(w) - 1) |-> IF j < i THEN w[j] ELSE w[j + 1]]

Edit1(w) ==
    UNION {{Substituted(w, i, c) : c \in EditChars(w[i])} : i \in 1..Len(w)}
        \cup {Deleted(w, i) : i \in 1..Len(w)}

RECURSIVE EditVariants(_, _)
EditVariants(v, k) ==
    IF k = 0
    THEN {v}
    ELSE LET prev == EditVariants(v, k - 1)
         IN  prev \cup UNION {Edit1(w) : w \in prev}

Padded(v) == {<<" ">> \o v, v \o <<" ">>, v \o <<"s">>, <<"_">> \o v}

Noise == {<<"s", "o", "o", "p", "e", "r", "-", "s", "i", "z", "e">>,
          <<"N", "o", "n", "e">>,
          <<"m", "i", "d", "-", "s", "i", "z", "e", "d">>,
          << >>}

MembersOf(f) == {ENUM_MAPPINGS(f)[i] : i \in 1..Len(ENUM_MAPPINGS(f))}

InputsFor(f) ==
    IF f \notin EnumFields
    THEN Noise
    ELSE UNION {Styles(m.value) \cup Styles(m.name) \cup EditVariants(m.value, MaxEdits)
                    \cup Padded(m.value) : m \in MembersOf(f)}
            \cup UNION {{m.value : m \in MembersOf(g)} : g \in EnumFields \ {f}}
            \cup Noise

ValidateInit ==
    /\ StreamIdle
    /\ GwIdle
    /\ ClassifyIdle
    /\ ExtractIdle
    /\ MergeIdle
    /\ QuestionIdle
    /\ PromptIdle
    /\ ExplainIdle
    /\ TurnsIdle
    /\ vField \in EnumFields \cup {"description"}
    /\ vInput \in InputsFor(vField)
    /\ vPc = "start"
    /\ vResult = None

\* one call of _validate_enum_field(vField, vInput)
Validate ==
    /\ vPc = "start"
    /\ vResult' = ValidateEnumField(vField, vInput)
    /\ vPc' = "done"
    /\ UNCHANGED <<vField, vInput>>
    /\ UNCHANGED nonValidateVars

ValidateNext ==
    \/ Validate

SpecValidate == ValidateInit /\ [][ValidateNext]_vars

\* ------------------------------------------------------------------------
\* Properties of the validator
\* ------------------------------------------------------------------------
\* what a case, space or hyphen variant of a canonical value is, position by
\* position
CharVariants(c) == IF c = "_" THEN {"_", " ", "-"} ELSE {c, UpperChar(c)}
IsVariantOf(str, v) ==
    /\ Len(str) = Len(v)
    /\ \A i \in 1..Len(v) : str[i] \in CharVariants(v[i])

\* n is the input lower-cased with spaces and hyphens made underscores
MatchesMember(n, m) == n = m.value \/ n = StrLower(m.name)

\* C9: for an enumerated field, validation returns a member's canonical value
\* exactly when the normalised input equals that member's value or name, it
\* rejects every other string, and every case, space or hyphen variant of a
\* canonical value is accepted as that value.
C9_EnumValidation ==
    (vPc = "done" /\ vField \in EnumFields) =>
        LET n == NormalizeValue(vInput)
            ms == MembersOf(vField)
        IN  /\ \A m \in ms :
                  /\ IsVariantOf(vInput, m.value) => vResult = Some(m.value)
                  /\ MatchesMember(n, m) => vResult = Some(m.value)
                  /\ vResult = Some(m.value) => MatchesMember(n, m)
            /\ (~\E m \in ms : MatchesMember(n, m)) => vResult = None
            /\ vResult.some => \E m \in ms : vResult.v = m.value

C9_Witness ==
    /\ vPc = "done"
    /\ vField = "org_type"
    /\ vInput = <<"F", "o", "r", "-", "P", "r", "o", "f", "i", "t">>
    /\ vResult = Some(OrganizationType[1].value)

\* ------------------------------------------------------------------------
\* Field extraction: values, contexts and replies
\* ------------------------------------------------------------------------
\* JSON values as Python holds them: None, a str, a number, a list
JNull == [t |-> "null", s |-> << >>, l |-> << >>]
JStr(str) == [t |-> "str", s |-> str, l |-> << >>]
JNum(digits) == [t |-> "num", s |-> digits, l |-> << >>]
JList(items) == [t |-> "list", s |-> << >>, l |-> items]

\* the fields of UserContext, in declaration order
ContextFields == <<"geography", "organization_name", "job_title", "org_type",
                   "org_size", "nomination_subject", "description",
                   "achievement_focus", "tech_orientation", "operating_scope">>
FieldNames == {ContextFields[i] : i \in 1..Len(ContextFields)}
StringFields == {"organization_name", "job_title", "description"}

\* FieldExtractor.REQUIRED_FIELDS
RequiredWithoutFocus == <<"org_type", "org_size", "nomination_subject", "description">>
REQUIRED_FIELDS == <<"org_type", "org_size", "nomination_subject", "description",
                     "achievement_focus">>

\* str(value)
RECURSIVE JoinItems(_)
JoinItems(items) ==
    IF items = << >> THEN << >>
    ELSE <<"'">> \o Head(items).s \o <<"'">>
            \o (IF Len(items) > 1 THEN <<",", " ">> ELSE << >>) \o JoinItems(Tail(items))

PyStr(val) ==
    CASE val.t = "str" -> val.s
      [] val.t = "null" -> <<"N", "o", "n", "e">>
      [] val.t = "num" -> val.s
      [] OTHER -> <<"[">> \o JoinItems(val.l) \o <<"]">>

\* truth value of a Python object
Truthy(val) ==
    CASE val.t = "null" -> FALSE
      [] val.t = "str" -> val.s # << >>
      [] val.t = "num" -> val.s # <<"0">>
      [] OTHER -> val.l # << >>

\* str.strip()
RECURSIVE LStrip(_)
LStrip(str) == IF str # << >> /\ Head(str) = " " THEN LStrip(Tail(str)) ELSE str
RECURSIVE RStrip(_)
RStrip(str) ==
    IF str # << >> /\ str[Len(str)] = " " THEN RStrip(SubSeq(str, 1, Len(str) - 1)) ELSE str
Strip(str) == LStrip(RStrip(str))

\* str.split(","): the pieces between the commas, empty ones included
RECURSIVE SplitComma(_, _)
SplitComma(str, piece) ==
    IF str = << >> THEN <<piece>>
    ELSE IF Head(str) = "," THEN <<piece>> \o SplitComma(Tail(str), << >>)
    ELSE SplitComma(Tail(str), Append(piece, Head(str)))

\* [v.strip() for v in value.split(",") if v.strip()]
RECURSIVE StripNonEmpty(_)
StripNonEmpty(pieces) ==
    IF pieces = << >> THEN << >>
    ELSE (IF Strip(Head(pieces)) # << >> THEN <<JStr(Strip(Head(pieces)))>> ELSE << >>)
            \o StripNonEmpty(Tail(pieces))

\* the achievement_focus branch of the validation loop
FocusOfString(str) == StripNonEmpty(SplitComma(str, << >>))
ValidateFocus(val) ==
    CASE val.t = "list" -> val
      [] val.t = "str" -> JList(FocusOfString(val.s))
      [] OTHER -> JList(<<JStr(PyStr(val))>>)

\* One pass of the validation loop for the pair (f, val): the pair put into
\* validated_fields, or nothing.
Kept(val) == [keep |-> TRUE, val |-> val]
Dropped == [keep |-> FALSE, val |-> JNull]

ValidateEnumClearing(f, val) ==
    LET r == ValidateEnumField(f, PyStr(val))
    IN  IF r.some /\ r.v # << >> THEN Kept(JStr(r.v)) ELSE Kept(JNull)
ValidateEnum(f, val) ==
    LET r == ValidateEnumField(f, PyStr(val))
    IN  IF r.some /\ r.v # << >> THEN Kept(JStr(r.v)) ELSE Dropped

ValidateOne(f, val) ==
    IF f \in EnumFields THEN ValidateEnum(f, val)
    ELSE IF f = "achievement_focus" THEN Kept(ValidateFocus(val))
    ELSE Kept(val)

\* validated_fields for the parsed reply: a function from the kept keys
ValidatedFields(extracted) ==
    LET keys == {k \in DOMAIN extracted : ValidateOne(k, extracted[k]).keep}
    IN  [k \in keys |-> ValidateOne(k, extracted[k]).val]

\* ------------------------------------------------------------------------
\* _infer_achievement_focus: the keyword table and the achievement-verb
\* table, entries in the order of the source
\* ------------------------------------------------------------------------
KeywordEntry(k, areas) == [keyword |-> k, areas |-> areas]
KeywordsMap == <<
    KeywordEntry(<<"a", "i">>,
        <<<<"A", "r", "t", "i", "f", "i", "c", "i", "a", "l", " ", "I", "n", "t", "e", "l", "l", "i", "g", "e", "n", "c", "e">>,
          <<"T", "e", "c", "h", "n", "o", "l", "o", "g", "y">>>>),
    KeywordEntry(<<"a", "r", "t", "i", "f", "i", "c", "i", "a", "l", " ", "i", "n", "t", "e", "l", "l", "i", "g", "e", "n", "c", "e">>,
        <<<<"A", "r", "t", "i", "f", "i", "c", "i", "a", "l", " ", "I", "n", "t", "e", "l", "l", "i", "g", "e", "n", "c", "e">>,
          <<"T", "e", "c", "h", "n", "o", "l", "o", "g", "y">>>>),
    KeywordEntry(<<"m", "a", "c", "h", "i", "n", "e", " ", "l", "e", "a", "r", "n", "i", "n", "g">>,
        <<<<"M", "a", "c", "h", "i", "n", "e", " ", "L", "e", "a", "r", "n", "i", "n", "g">>,
          <<"T", "e", "c", "h", "n", "o", "l", "o", "g", "y">>>>),
    KeywordEntry(<<"m", "l">>,
        <<<<"M", "a", "c", "h", "i", "n", "e", " ", "L", "e", "a", "r", "n", "i", "n", "g">>,
          <<"T", "e", "c", "h", "n", "o", "l", "o", "g", "y">>>>),
    KeywordEntry(<<"b", "l", "o", "c", "k", "c", "h", "a", "i", "n">>,
        <<<<"B", "l", "o", "c", "k", "c", "h", "a", "i", "n">>,
          <<"T", "e", "c", "h", "n", "o", "l", "o", "g", "y">>>>),
    KeywordEntry(<<"c", "l", "o", "u", "d">>,
        <<<<"C", "l", "o", "u", "d", " ", "C", "o", "m", "p", "u", "t", "i", "n", "g">>,
          <<"T", "e", "c", "h", "n", "o", "l", "o", "g", "y">>>>),
    KeywordEntry(<<"c", "y", "b", "e", "r", "s", "e", "c", "u", "r", "i", "t", "y">>,
        <<<<"C", "y", "b", "e", "r", "s", "e", "c", "u", "r", "i", "t", "y">>,
          <<"T", "e", "c", "h", "n", "o", "l", "o", "g", "y">>>>),
    KeywordEntry(<<"d", "a", "t", "a">>,
        <<<<"D", "a", "t", "a", " ", "A", "n", "a", "l", "y", "t", "i", "c", "s">>,
          <<"T", "e", "c", "h", "n", "o", "l", "o", "g", "y">>>>),
    KeywordEntry(<<"a", "n", "a", "l", "y", "t", "i", "c", "s">>,
        <<<<"D", "a", "t", "a", " ", "A", "n", "a", "l", "y", "t", "i", "c", "s">>,
          <<"T", "e", "c", "h", "n", "o", "l", "o", "g", "y">>>>),
    KeywordEntry(<<"s", "o", "f", "t", "w", "a", "r", "e">>,
        <<<<"S", "o", "f", "t", "w", "a", "r", "e", " ", "D", "e", "v", "e", "l", "o", "p", "m", "e", "n", "t">>,
          <<"T", "e", "c", "h", "n", "o", "l", "o", "g", "y">>>>),
    KeywordEntry(<<"m", "o", "b", "i", "l", "e">>,
        <<<<"M", "o", "b", "i", "l", "e", " ", "T", "e", "c", "h", "n", "o", "l", "o", "g", "y">>,
          <<"T", "e", "c", "h", "n", "o", "l", "o", "g", "y">>>>),
    KeywordEntry(<<"i", "o", "t">>,
        <<<<"I", "n", "t", "e", "r", "n", "e", "t", " ", "o", "f", " ", "T", "h", "i", "n", "g", "s">>,
          <<"T", "e", "c", "h", "n", "o", "l", "o", "g", "y">>>>),
    KeywordEntry(<<"a", "u", "t", "o", "m", "a", "t", "i", "o", "n">>,
        <<<<"A", "u", "t", "o", "m", "a", "t", "i", "o", "n">>,
          <<"T", "e", "c", "h", "n", "o", "l", "o", "g", "y">>>>),
    KeywordEntry(<<"d", "i", "g", "i", "t", "a", "l">>,
        <<<<"D", "i", "g", "i", "t", "a", "l", " ", "T", "r", "a", "n", "s", "f", "o", "r", "m", "a", "t", "i", "o", "n">>,
          <<"T", "e", "c", "h", "n", "o", "l", "o", "g", "y">>>>),
    KeywordEntry(<<"w", "h", "o">>,
        <<<<"H", "e", "a", "l", "t", "h", "c", "a", "r", "e">>,
          <<"G", "l", "o", "b", "a", "l", " ", "R", "e", "c", "o", "g", "n", "i", "t", "i", "o", "n">>,
          <<"Q", "u", "a", "l", "i", "t", "y", " ", "M", "a", "n", "a", "g", "e", "m", "e", "n", "t">>>>),
    KeywordEntry(<<"h", "e", "a", "l", "t", "h">>,
        <<<<"H", "e", "a", "l", "t", "h", "c", "a", "r", "e">>>>),
    KeywordEntry(<<"m", "e", "d", "i", "c", "a", "l">>,
        <<<<"H", "e", "a", "l", "t", "h", "c", "a", "r", "e">>,
          <<"M", "e", "d", "i", "c", "a", "l", " ", "I", "n", "n", "o", "v", "a", "t", "i", "o", "n">>>>),
    KeywordEntry(<<"p", "a", "t", "i", "e", "n", "t">>,
        <<<<"H", "e", "a", "l", "t", "h", "c", "a", "r", "e">>,
          <<"P", "a", "t", "i", "e", "n", "t", " ", "C", "a", "r", "e">>>>),
    KeywordEntry(<<"r", "a", "t", "i", "n", "g">>,
        <<<<"Q", "u", "a", "l", "i", "t", "y", " ", "M", "a", "n", "a", "g", "e", "m", "e", "n", "t">>,
          <<"P", "e", "r", "f", "o", "r", "m", "a", "n", "c", "e", " ", "E", "x", "c", "e", "l", "l", "e", "n", "c", "e">>>>),
    KeywordEntry(<<"q", "u", "a", "l", "i", "t", "y">>,
        <<<<"Q", "u", "a", "l", "i", "t", "y", " ", "M", "a", "n", "a", "g", "e", "m", "e", "n", "t">>>>),
    KeywordEntry(<<"c", "e", "r", "t", "i", "f", "i", "c", "a", "t", "i", "o", "n">>,
        <<<<"Q", "u", "a", "l", "i", "t", "y", " ", "M", "a", "n", "a", "g", "e", "m", "e", "n", "t">>,
          <<"C", "o", "m", "p", "l", "i", "a", "n", "c", "e">>>>),
    KeywordEntry(<<"c", "o", "m", "p", "l", "i", "a", "n", "c", "e">>,
        <<<<"C", "o", "m", "p", "l", "i", "a", "n", "c", "e">>,
          <<"Q", "u", "a", "l", "i", "t", "y", " ", "M", "a", "n", "a", "g", "e", "m", "e", "n", "t">>>>),
    KeywordEntry(<<"s", "a", "f", "e", "t", "y">>,
        <<<<"S", "a", "f", "e", "t", "y">>,
          <<"Q", "u", "a", "l", "i", "t", "y", " ", "M", "a", "n", "a", "g", "e", "m", "e", "n", "t">>>>),
    KeywordEntry(<<"m", "a", "r", "k", "e", "t", "i", "n", "g">>,
        <<<<"M", "a", "r", "k", "e", "t", "i", "n", "g">>,
          <<"B", "r", "a", "n", "d", " ", "M", "a", "n", "a", "g", "e", "m", "e", "n", "t">>>>),
    KeywordEntry(<<"b", "r", "a", "n", "d">>,
        <<<<"B", "r", "a", "n", "d", " ", "M", "a", "n", "a", "g", "e", "m", "e", "n", "t">>,
          <<"M", "a", "r", "k", "e", "t", "i", "n", "g">>>>),
    KeywordEntry(<<"a", "d", "v", "e", "r", "t", "i", "s", "i", "n", "g">>,
        <<<<"A", "d", "v", "e", "r", "t", "i", "s", "i", "n", "g">>,
          <<"M", "a", "r", "k", "e", "t", "i", "n", "g">>>>),
    KeywordEntry(<<"s", "a", "l", "e", "s">>,
        <<<<"S", "a", "l", "e", "s">>,
          <<"R", "e", "v", "e", "n", "u", "e", " ", "G", "r", "o", "w", "t", "h">>>>),
    KeywordEntry(<<"r", "e", "v", "e", "n", "u", "e">>,
        <<<<"R", "e", "v", "e", "n", "u", "e", " ", "G", "r", "o", "w", "t", "h">>,
          <<"F", "i", "n", "a", "n", "c", "i", "a", "l", " ", "P", "e", "r", "f", "o", "r", "m", "a", "n", "c", "e">>>>),
    KeywordEntry(<<"c", "u", "s", "t", "o", "m", "e", "r", " ", "s", "e", "r", "v", "i", "c", "e">>,
        <<<<"C", "u", "s", "t", "o", "m", "e", "r", " ", "S", "e", "r", "v", "i", "c", "e">>,
          <<"C", "u", "s", "t", "o", "m", "e", "r", " ", "E", "x", "p", "e", "r", "i", "e", "n", "c", "e">>>>),
    KeywordEntry(<<"c", "u", "s", "t", "o", "m", "e", "r", " ", "e", "x", "p", "e", "r", "i", "e", "n", "c", "e">>,
        <<<<"C", "u", "s", "t", "o", "m", "e", "r", " ", "E", "x", "p", "e", "r", "i", "e", "n", "c", "e">>>>),
    KeywordEntry(<<"c", "u", "s", "t", "o", "m", "e", "r", " ", "s", "u", "p", "p", "o", "r", "t">>,
        <<<<"C", "u", "s", "t", "o", "m", "e", "r", " ", "S", "e", "r", "v", "i", "c", "e">>,
          <<"C", "u", "s", "t", "o", "m", "e", "r", " ", "E", "x", "p", "e", "r", "i", "e", "n", "c", "e">>>>),
    KeywordEntry(<<"c", "x">>,
        <<<<"C", "u", "s", "t", "o", "m", "e", "r", " ", "E", "x", "p", "e", "r", "i", "e", "n", "c", "e">>>>),
    KeywordEntry(<<"i", "n", "n", "o", "v", "a", "t", "i", "o", "n">>,
        <<<<"I", "n", "n", "o", "v", "a", "t", "i", "o", "n">>,
          <<"P", "r", "o", "d", "u", "c", "t", " ", "D", "e", "v", "e", "l", "o", "p", "m", "e", "n", "t">>>>),
    KeywordEntry(<<"p", "r", "o", "d", "u", "c", "t">>,
        <<<<"P", "r", "o", "d", "u", "c", "t", " ", "D", "e", "v", "e", "l", "o", "p", "m", "e", "n", "t">>,
          <<"P", "r", "o", "d", "u", "c", "t", " ", "E", "x", "c", "e", "l", "l", "e", "n", "c", "e">>>>),
    KeywordEntry(<<"s", "e", "r", "v", "i", "c", "e">>,
        <<<<"S", "e", "r", "v", "i", "c", "e", " ", "E", "x", "c", "e", "l", "l", "e", "n", "c", "e">>>>),
    KeywordEntry(<<"e", "c", "o", "m", "m", "e", "r", "c", "e">>,
        <<<<"E", "-", "c", "o", "m", "m", "e", "r", "c", "e">>,
          <<"D", "i", "g", "i", "t", "a", "l", " ", "C", "o", "m", "m", "e", "r", "c", "e">>>>),
    KeywordEntry(<<"e", "-", "c", "o", "m", "m", "e", "r", "c", "e">>,
        <<<<"E", "-", "c", "o", "m", "m", "e", "r", "c", "e">>,
          <<"D", "i", "g", "i", "t", "a", "l", " ", "C", "o", "m", "m", "e", "r", "c", "e">>>>),
    KeywordEntry(<<"l", "e", "a", "d", "e", "r", "s", "h", "i", "p">>,
        <<<<"L", "e", "a", "d", "e", "r", "s", "h", "i", "p">>,
          <<"M", "a", "n", "a", "g", "e", "m", "e", "n", "t", " ", "E", "x", "c", "e", "l", "l", "e", "n", "c", "e">>>>),
    KeywordEntry(<<"m", "a", "n", "a", "g", "e", "m", "e", "n", "t">>,
        <<<<"M", "a", "n", "a", "g", "e", "m", "e", "n", "t", " ", "E", "x", "c", "e", "l", "l", "e", "n", "c", "e">>>>),
    KeywordEntry(<<"t", "e", "a", "m">>,
        <<<<"T", "e", "a", "m", " ", "P", "e", "r", "f", "o", "r", "m", "a", "n", "c", "e">>,
          <<"C", "o", "l", "l", "a", "b", "o", "r", "a", "t", "i", "o", "n">>>>),
    KeywordEntry(<<"c", "o", "l", "l", "a", "b", "o", "r", "a", "t", "i", "o", "n">>,
        <<<<"C", "o", "l", "l", "a", "b", "o", "r", "a", "t", "i", "o", "n">>,
          <<"T", "e", "a", "m", " ", "P", "e", "r", "f", "o", "r", "m", "a", "n", "c", "e">>>>),
    KeywordEntry(<<"c", "u", "l", "t", "u", "r", "e">>,
        <<<<"O", "r", "g", "a", "n", "i", "z", "a", "t", "i", "o", "n", "a", "l", " ", "C", "u", "l", "t", "u", "r", "e">>,
          <<"E", "m", "p", "l", "o", "y", "e", "e", " ", "E", "n", "g", "a", "g", "e", "m", "e", "n", "t">>>>),
    KeywordEntry(<<"e", "m", "p", "l", "o", "y", "e", "e">>,
        <<<<"E", "m", "p", "l", "o", "y", "e", "e", " ", "E", "n", "g", "a", "g", "e", "m", "e", "n", "t">>,
          <<"H", "u", "m", "a", "n", " ", "R", "e", "s", "o", "u", "r", "c", "e", "s">>>>),
    KeywordEntry(<<"d", "i", "v", "e", "r", "s", "i", "t", "y">>,
        <<<<"D", "i", "v", "e", "r", "s", "i", "t", "y", " ", "&", " ", "I", "n", "c", "l", "u", "s", "i", "o", "n">>>>),
    KeywordEntry(<<"i", "n", "c", "l", "u", "s", "i", "o", "n">>,
        <<<<"D", "i", "v", "e", "r", "s", "i", "t", "y", " ", "&", " ", "I", "n", "c", "l", "u", "s", "i", "o", "n">>>>),
    KeywordEntry(<<"h", "r">>,
        <<<<"H", "u", "m", "a", "n", " ", "R", "e", "s", "o", "u", "r", "c", "e", "s">>>>),
    KeywordEntry(<<"t", "a", "l", "e", "n", "t">>,
        <<<<"T", "a", "l", "e", "n", "t", " ", "M", "a", "n", "a", "g", "e", "m", "e", "n", "t">>,
          <<"H", "u", "m", "a", "n", " ", "R", "e", "s", "o", "u", "r", "c", "e", "s">>>>),
    KeywordEntry(<<"g", "r", "o", "w", "t", "h">>,
        <<<<"B", "u", "s", "i", "n", "e", "s", "s", " ", "G", "r", "o", "w", "t", "h">>,
          <<"R", "e", "v", "e", "n", "u", "e", " ", "G", "r", "o", "w", "t", "h">>>>),
    KeywordEntry(<<"p", "r", "o", "f", "i", "t">>,
        <<<<"F", "i", "n", "a", "n", "c", "i", "a", "l", " ", "P", "e", "r", "f", "o", "r", "m", "a", "n", "c", "e">>>>),
    KeywordEntry(<<"e", "x", "p", "a", "n", "s", "i", "o", "n">>,
        <<<<"B", "u", "s", "i", "n", "e", "s", "s", " ", "G", "r", "o", "w", "t", "h">>,
          <<"M", "a", "r", "k", "e", "t", " ", "E", "x", "p", "a", "n", "s", "i", "o", "n">>>>),
    KeywordEntry(<<"g", "l", "o", "b", "a", "l">>,
        <<<<"G", "l", "o", "b", "a", "l", " ", "O", "p", "e", "r", "a", "t", "i", "o", "n", "s">>,
          <<"I", "n", "t", "e", "r", "n", "a", "t", "i", "o", "n", "a", "l", " ", "E", "x", "p", "a", "n", "s", "i", "o", "n">>>>),
    KeywordEntry(<<"i", "n", "t", "e", "r", "n", "a", "t", "i", "o", "n", "a", "l">>,
        <<<<"I", "n", "t", "e", "r", "n", "a", "t", "i", "o", "n", "a", "l", " ", "E", "x", "p", "a", "n", "s", "i", "o", "n">>>>),
    KeywordEntry(<<"w", "o", "r", "l", "d", "w", "i", "d", "e">>,
        <<<<"G", "l", "o", "b", "a", "l", " ", "O", "p", "e", "r", "a", "t", "i", "o", "n", "s">>,
          <<"I", "n", "t", "e", "r", "n", "a", "t", "i", "o", "n", "a", "l", " ", "E", "x", "p", "a", "n", "s", "i", "o", "n">>>>),
    KeywordEntry(<<"p", "e", "r", "f", "o", "r", "m", "a", "n", "c", "e">>,
        <<<<"P", "e", "r", "f", "o", "r", "m", "a", "n", "c", "e", " ", "E", "x", "c", "e", "l", "l", "e", "n", "c", "e">>>>),
    KeywordEntry(<<"e", "x", "c", "e", "l", "l", "e", "n", "c", "e">>,
        <<<<"P", "e", "r", "f", "o", "r", "m", "a", "n", "c", "e", " ", "E", "x", "c", "e", "l", "l", "e", "n", "c", "e">>>>),
    KeywordEntry(<<"a", "c", "h", "i", "e", "v", "e", "m", "e", "n", "t">>,
        <<<<"P", "e", "r", "f", "o", "r", "m", "a", "n", "c", "e", " ", "E", "x", "c", "e", "l", "l", "e", "n", "c", "e">>>>),
    KeywordEntry(<<"e", "d", "u", "c", "a", "t", "i", "o", "n">>,
        <<<<"E", "d", "u", "c", "a", "t", "i", "o", "n">>,
          <<"T", "r", "a", "i", "n", "i", "n", "g", " ", "&", " ", "D", "e", "v", "e", "l", "o", "p", "m", "e", "n", "t">>>>),
    KeywordEntry(<<"t", "r", "a", "i", "n", "i", "n", "g">>,
        <<<<"T", "r", "a", "i", "n", "i", "n", "g", " ", "&", " ", "D", "e", "v", "e", "l", "o", "p", "m", "e", "n", "t">>>>),
    KeywordEntry(<<"f", "i", "n", "a", "n", "c", "e">>,
        <<<<"F", "i", "n", "a", "n", "c", "e">>,
          <<"F", "i", "n", "a", "n", "c", "i", "a", "l", " ", "S", "e", "r", "v", "i", "c", "e", "s">>>>),
    KeywordEntry(<<"b", "a", "n", "k", "i", "n", "g">>,
        <<<<"F", "i", "n", "a", "n", "c", "e">>,
          <<"F", "i", "n", "a", "n", "c", "i", "a", "l", " ", "S", "e", "r", "v", "i", "c", "e", "s">>>>),
    KeywordEntry(<<"r", "e", "t", "a", "i", "l">>,
        <<<<"R", "e", "t", "a", "i", "l">>,
          <<"E", "-", "c", "o", "m", "m", "e", "r", "c", "e">>>>),
    KeywordEntry(<<"m", "a", "n", "u", "f", "a", "c", "t", "u", "r", "i", "n", "g">>,
        <<<<"M", "a", "n", "u", "f", "a", "c", "t", "u", "r", "i", "n", "g">>,
          <<"O", "p", "e", "r", "a", "t", "i", "o", "n", "s", " ", "E", "x", "c", "e", "l", "l", "e", "n", "c", "e">>>>),
    KeywordEntry(<<"l", "o", "g", "i", "s", "t", "i", "c", "s">>,
        <<<<"L", "o", "g", "i", "s", "t", "i", "c", "s">>,
          <<"S", "u", "p", "p", "l", "y", " ", "C", "h", "a", "i", "n">>>>),
    KeywordEntry(<<"s", "u", "p", "p", "l", "y", " ", "c", "h", "a", "i", "n">>,
        <<<<"S", "u", "p", "p", "l", "y", " ", "C", "h", "a", "i", "n">>,
          <<"O", "p", "e", "r", "a", "t", "i", "o", "n", "s", " ", "E", "x", "c", "e", "l", "l", "e", "n", "c", "e">>>>),
    KeywordEntry(<<"o", "p", "e", "r", "a", "t", "i", "o", "n", "s">>,
        <<<<"O", "p", "e", "r", "a", "t", "i", "o", "n", "s", " ", "E", "x", "c", "e", "l", "l", "e", "n", "c", "e">>>>),
    KeywordEntry(<<"s", "u", "s", "t", "a", "i", "n", "a", "b", "i", "l", "i", "t", "y">>,
        <<<<"S", "u", "s", "t", "a", "i", "n", "a", "b", "i", "l", "i", "t", "y">>,
          <<"E", "n", "v", "i", "r", "o", "n", "m", "e", "n", "t", "a", "l", " ", "R", "e", "s", "p", "o", "n", "s", "i", "b", "i", "l", "i", "t", "y">>>>),
    KeywordEntry(<<"e", "n", "v", "i", "r", "o", "n", "m", "e", "n", "t">>,
        <<<<"E", "n", "v", "i", "r", "o", "n", "m", "e", "n", "t", "a", "l", " ", "R", "e", "s", "p", "o", "n", "s", "i", "b", "i", "l", "i", "t", "y">>>>),
    KeywordEntry(<<"g", "r", "e", "e", "n">>,
        <<<<"S", "u", "s", "t", "a", "i", "n", "a", "b", "i", "l", "i", "t", "y">>,
          <<"E", "n", "v", "i", "r", "o", "n", "m", "e", "n", "t", "a", "l", " ", "R", "e", "s", "p", "o", "n", "s", "i", "b", "i", "l", "i", "t", "y">>>>),
    KeywordEntry(<<"s", "o", "c", "i", "a", "l">>,
        <<<<"S", "o", "c", "i", "a", "l", " ", "R", "e", "s", "p", "o", "n", "s", "i", "b", "i", "l", "i", "t", "y">>,
          <<"C", "o", "m", "m", "u", "n", "i", "t", "y", " ", "I", "m", "p", "a", "c", "t">>>>),
    KeywordEntry(<<"c", "o", "m", "m", "u", "n", "i", "t", "y">>,
        <<<<"C", "o", "m", "m", "u", "n", "i", "t", "y", " ", "I", "m", "p", "a", "c", "t">>>>),
    KeywordEntry(<<"c", "h", "a", "r", "i", "t", "y">>,
        <<<<"S", "o", "c", "i", "a", "l", " ", "R", "e", "s", "p", "o", "n", "s", "i", "b", "i", "l", "i", "t", "y">>,
          <<"C", "o", "m", "m", "u", "n", "i", "t", "y", " ", "I", "m", "p", "a", "c", "t">>>>),
    KeywordEntry(<<"n", "o", "n", "p", "r", "o", "f", "i", "t">>,
        <<<<"S", "o", "c", "i", "a", "l", " ", "R", "e", "s", "p", "o", "n", "s", "i", "b", "i", "l", "i", "t", "y">>>>),
    KeywordEntry(<<"c", "o", "m", "m", "u", "n", "i", "c", "a", "t", "i", "o", "n">>,
        <<<<"C", "o", "m", "m", "u", "n", "i", "c", "a", "t", "i", "o", "n">>,
          <<"P", "u", "b", "l", "i", "c", " ", "R", "e", "l", "a", "t", "i", "o", "n", "s">>>>),
    KeywordEntry(<<"p", "r">>,
        <<<<"P", "u", "b", "l", "i", "c", " ", "R", "e", "l", "a", "t", "i", "o", "n", "s">>,
          <<"C", "o", "m", "m", "u", "n", "i", "c", "a", "t", "i", "o", "n">>>>),
    KeywordEntry(<<"s", "o", "c", "i", "a", "l", " ", "m", "e", "d", "i", "a">>,
        <<<<"S", "o", "c", "i", "a", "l", " ", "M", "e", "d", "i", "a">>,
          <<"D", "i", "g", "i", "t", "a", "l", " ", "M", "a", "r", "k", "e", "t", "i", "n", "g">>>>),
    KeywordEntry(<<"c", "o", "n", "t", "e", "n", "t">>,
        <<<<"C", "o", "n", "t", "e", "n", "t", " ", "M", "a", "r", "k", "e", "t", "i", "n", "g">>,
          <<"M", "a", "r", "k", "e", "t", "i", "n", "g">>>>),
    KeywordEntry(<<"s", "e", "o">>,
        <<<<"S", "E", "O">>,
          <<"D", "i", "g", "i", "t", "a", "l", " ", "M", "a", "r", "k", "e", "t", "i", "n", "g">>>>),
    KeywordEntry(<<"w", "e", "b">>,
        <<<<"W", "e", "b", " ", "D", "e", "v", "e", "l", "o", "p", "m", "e", "n", "t">>,
          <<"T", "e", "c", "h", "n", "o", "l", "o", "g", "y">>>>),
    KeywordEntry(<<"w", "e", "b", "s", "i", "t", "e">>,
        <<<<"W", "e", "b", " ", "D", "e", "v", "e", "l", "o", "p", "m", "e", "n", "t">>,
          <<"T", "e", "c", "h", "n", "o", "l", "o", "g", "y">>>>),
    KeywordEntry(<<"a", "w", "a", "r", "d">>,
        <<<<"R", "e", "c", "o", "g", "n", "i", "t", "i", "o", "n">>,
          <<"E", "x", "c", "e", "l", "l", "e", "n", "c", "e">>>>),
    KeywordEntry(<<"r", "e", "c", "o", "g", "n", "i", "t", "i", "o", "n">>,
        <<<<"R", "e", "c", "o", "g", "n", "i", "t", "i", "o", "n">>,
          <<"E", "x", "c", "e", "l", "l", "e", "n", "c", "e">>>>),
    KeywordEntry(<<"w", "i", "n", "n", "e", "r">>,
        <<<<"R", "e", "c", "o", "g", "n", "i", "t", "i", "o", "n">>,
          <<"E", "x", "c", "e", "l", "l", "e", "n", "c", "e">>>>),
    KeywordEntry(<<"b", "e", "s", "t">>,
        <<<<"E", "x", "c", "e", "l", "l", "e", "n", "c", "e">>>>),
    KeywordEntry(<<"t", "o", "p">>,
        <<<<"E", "x", "c", "e", "l", "l", "e", "n", "c", "e">>>>) >>

AchievementPatterns == <<
    KeywordEntry(<<"i", "n", "c", "r", "e", "a", "s", "e", "d">>,
        <<<<"P", "e", "r", "f", "o", "r", "m", "a", "n", "c", "e", " ", "E", "x", "c", "e", "l", "l", "e", "n", "c", "e">>,
          <<"G", "r", "o", "w", "t", "h">>>>),
    KeywordEntry(<<"i", "m", "p", "r", "o", "v", "e", "d">>,
        <<<<"P", "e", "r", "f", "o", "r", "m", "a", "n", "c", "e", " ", "E", "x", "c", "e", "l", "l", "e", "n", "c", "e">>,
          <<"C", "o", "n", "t", "i", "n", "u", "o", "u", "s", " ", "I", "m", "p", "r", "o", "v", "e", "m", "e", "n", "t">>>>),
    KeywordEntry(<<"l", "a", "u", "n", "c", "h", "e", "d">>,
        <<<<"I", "n", "n", "o", "v", "a", "t", "i", "o", "n">>,
          <<"P", "r", "o", "d", "u", "c", "t", " ", "D", "e", "v", "e", "l", "o", "p", "m", "e", "n", "t">>>>),
    KeywordEntry(<<"d", "e", "v", "e", "l", "o", "p", "e", "d">>,
        <<<<"P", "r", "o", "d", "u", "c", "t", " ", "D", "e", "v", "e", "l", "o", "p", "m", "e", "n", "t">>,
          <<"I", "n", "n", "o", "v", "a", "t", "i", "o", "n">>>>),
    KeywordEntry(<<"c", "r", "e", "a", "t", "e", "d">>,
        <<<<"I", "n", "n", "o", "v", "a", "t", "i", "o", "n">>,
          <<"C", "r", "e", "a", "t", "i", "v", "i", "t", "y">>>>),
    KeywordEntry(<<"a", "c", "h", "i", "e", "v", "e", "d">>,
        <<<<"P", "e", "r", "f", "o", "r", "m", "a", "n", "c", "e", " ", "E", "x", "c", "e", "l", "l", "e", "n", "c", "e">>>>),
    KeywordEntry(<<"w", "o", "n">>,
        <<<<"R", "e", "c", "o", "g", "n", "i", "t", "i", "o", "n">>,
          <<"E", "x", "c", "e", "l", "l", "e", "n", "c", "e">>>>),
    KeywordEntry(<<"g", "a", "i", "n", "e", "d">>,
        <<<<"G", "r", "o", "w", "t", "h">>,
          <<"M", "a", "r", "k", "e", "t", " ", "S", "u", "c", "c", "e", "s", "s">>>>),
    KeywordEntry(<<"g", "r", "e", "w">>,
        <<<<"B", "u", "s", "i", "n", "e", "s", "s", " ", "G", "r", "o", "w", "t", "h">>>>),
    KeywordEntry(<<"e", "x", "p", "a", "n", "d", "e", "d">>,
        <<<<"B", "u", "s", "i", "n", "e", "s", "s", " ", "G", "r", "o", "w", "t", "h">>,
          <<"M", "a", "r", "k", "e", "t", " ", "E", "x", "p", "a", "n", "s", "i", "o", "n">>>>),
    KeywordEntry(<<"t", "r", "a", "n", "s", "f", "o", "r", "m", "e", "d">>,
        <<<<"T", "r", "a", "n", "s", "f", "o", "r", "m", "a", "t", "i", "o", "n">>,
          <<"I", "n", "n", "o", "v", "a", "t", "i", "o", "n">>>>),
    KeywordEntry(<<"r", "e", "v", "o", "l", "u", "t", "i", "o", "n", "i", "z", "e", "d">>,
        <<<<"I", "n", "n", "o", "v", "a", "t", "i", "o", "n">>,
          <<"D", "i", "s", "r", "u", "p", "t", "i", "o", "n">>>>),
    KeywordEntry(<<"p", "i", "o", "n", "e", "e", "r", "e", "d">>,
        <<<<"I", "n", "n", "o", "v", "a", "t", "i", "o", "n">>,
          <<"L", "e", "a", "d", "e", "r", "s", "h", "i", "p">>>>) >>

BusinessExcellence == <<"B", "u", "s", "i", "n", "e", "s", "s", " ", "E", "x", "c", "e", "l", "l", "e", "n", "c", "e">>
GeneralAchievement == <<"G", "e", "n", "e", "r", "a", "l", " ", "A", "c", "h", "i", "e", "v", "e", "m", "e", "n", "t">>
LongDescription == 50

\* keyword in description_lower
Contains(text, k) ==
    \E i \in 0..(Len(text) - Len(k)) : SubSeq(text, i + 1, i + Len(k)) = k

\* the areas of every entry of the table whose keyword occurs in the text
MatchedAreas(tbl, text) ==
    UNION {{tbl[i].areas[j] : j \in 1..Len(tbl[i].areas)} :
              i \in {n \in 1..Len(tbl) : Contains(text, tbl[n].keyword)}}

\* the final fallback, by the length of the description
DefaultAtFifty(description) ==
    IF Len(description) >= LongDescription THEN {BusinessExcellence} ELSE {GeneralAchievement}
DefaultFocus(description) ==
    IF Len(description) > LongDescription THEN {BusinessExcellence} ELSE {GeneralAchievement}

\* The tags _infer_achievement_focus returns for a description. It returns
\* list(set(...)): the tags in an order the run decides.
InferAchievementFocus(description) ==
    LET lower == StrLower(description)
        byKeyword == MatchedAreas(KeywordsMap, lower)
        byVerb == IF byKeyword = {} THEN MatchedAreas(AchievementPatterns, lower) ELSE byKeyword
    IN  IF byVerb = {} THEN DefaultFocus(description) ELSE byVerb

\* every order of the elements of a finite set
RECURSIVE Orders(_)
Orders(S) ==
    IF S = {} THEN {<< >>}
    ELSE UNION {{<<x>> \o rest : rest \in Orders(S \ {x})} : x \in S}

\* ---- the descriptions the model's replies and contexts draw from
DescShort == <<"H", "e", "l", "p", "i", "n", "g", " ", "k", "i", "d", "s", " ", "r", "e", "a", "d">>
DescHealth == <<"W", "e", " ", "r", "u", "n", " ", "a", " ", "h", "e", "a", "l", "t", "h", " ", "c", "l", "i", "n", "i", "c">>
DescMarketing == <<"O", "u", "r", " ", "m", "a", "r", "k", "e", "t", "i", "n", "g", " ", "s", "h", "i", "n", "e", "s">>
DescGrew == <<"W", "e", " ", "g", "r", "e", "w">>
Desc49 == <<"W", "e", " ", "h", "e", "l", "p", " ", "y", "o", "u", "n", "g", " ", "k", "i", "d", "s", " ", "o", "f", " ", "t", "h", "i", "s", " ", "c", "i", "t", "y", " ", "t", "o", " ", "r", "e", "a", "d", " ", "a", "n", "d", " ", "c", "o", "u", "n", "t">>
Desc50 == <<"W", "e", " ", "h", "e", "l", "p", " ", "y", "o", "u", "n", "g", " ", "k", "i", "d", "s", " ", "o", "f", " ", "t", "h", "i", "s", " ", "c", "i", "t", "y", " ", "t", "o", " ", "r", "e", "a", "d", " ", "a", "n", "d", " ", "c", "o", "u", "n", "t", ".">>
Desc51 == <<"W", "e", " ", "h", "e", "l", "p", " ", "y", "o", "u", "n", "g", " ", "k", "i", "d", "s", " ", "o", "f", " ", "t", "h", "i", "s", " ", "c", "i", "t", "y", " ", "t", "o", " ", "r", "e", "a", "d", " ", "a", "n", "d", " ", "c", "o", "u", "n", "t", " ", ".">>

Descriptions == {DescShort, DescHealth, DescMarketing, DescGrew, Desc49, Desc50, Desc51, << >>}

\* _infer_achievement_focus on the descriptions above, computed once
InferredFocus == [d \in Descriptions |-> InferAchievementFocus(d)]
InferFocus(d) == IF d \in Descriptions THEN InferredFocus[d] ELSE InferAchievementFocus(d)

\* ------------------------------------------------------------------------
\* extract_fields
\* ------------------------------------------------------------------------
MaxTurns == 2

EmptyMap == [k \in {} |-> JNull]
Pair(k, val) == [x \in {k} |-> val]
Both(m1, m2) == [x \in (DOMAIN m1) \cup (DOMAIN m2) |-> IF x \in DOMAIN m2 THEN m2[x] ELSE m1[x]]

\* The statements of the try block after the gateway call: the reply text is
\* stripped of a code fence and parsed; a reply that is no JSON, or no
\* object, and a failed call leave extracted_fields empty.
ParseExtracted(reply) ==
    IF reply.kind \in {"object", "fenced"} THEN reply.fields ELSE EmptyMap

\* context.model_dump(exclude_none=True), then .update(validated_fields)
ModelDump(c) == [k \in {f \in FieldNames : c[f] # JNull} |-> c[k]]
MergeReplacing(dict, validated) == validated
MergeExtendingFocus(dict, validated) ==
    IF /\ "achievement_focus" \in (DOMAIN dict) \cap (DOMAIN validated)
       /\ dict["achievement_focus"].t = "list"
       /\ validated["achievement_focus"].t = "list"
    THEN Both(Both(dict, validated),
              Pair("achievement_focus",
                   JList(dict["achievement_focus"].l \o validated["achievement_focus"].l)))
    ELSE Both(dict, validated)
Merge(dict, validated) == Both(dict, validated)

\* the condition of the inference fallback
FocusAbsentOnly(dict) == "achievement_focus" \notin DOMAIN dict
FocusMissing(dict) ==
    \/ "achievement_focus" \notin DOMAIN dict
    \/ ~Truthy(dict["achievement_focus"])
HasDescription(dict) ==
    /\ "description" \in DOMAIN dict
    /\ Truthy(dict["description"])

\* UserContext(**context_dict) accepts the value of field k
IsMemberValue(f, val) ==
    val.t = "str" /\ \E m \in MembersOf(f) : m.value = val.s
FieldAccepts(k, val) ==
    \/ val = JNull
    \/ k \in EnumFields /\ IsMemberValue(k, val)
    \/ k \in StringFields /\ val.t = "str"
    \/ /\ k = "achievement_focus"
       /\ val.t = "list"
       /\ \A i \in 1..Len(val.l) : val.l[i].t = "str"
PydanticValid(dict) == \A k \in (DOMAIN dict) \cap FieldNames : FieldAccepts(k, dict[k])
\* keys that are no field of UserContext are ignored
UserContext(dict) == [f \in FieldNames |-> IF f \in DOMAIN dict THEN dict[f] ELSE JNull]

\* _check_completeness
CheckCompleteness(c) == \A i \in 1..Len(REQUIRED_FIELDS) : c[REQUIRED_FIELDS[i]] # JNull

Returned(validated, complete, updated) ==
    [raised |-> "none", extracted_fields |-> validated, is_complete |-> complete,
     updated_context |-> updated]
ExtractRaised(e, c) ==
    [raised |-> e, extracted_fields |-> EmptyMap, is_complete |-> FALSE,
     updated_context |-> c]

\* the inference fallback runs on the merged dict
InferenceNever(merged) == FALSE
InferenceRuns(merged) == FocusMissing(merged) /\ HasDescription(merged)

\* Lines 214-243 for the input context c and the validated fields: the set
\* of possible outcomes (the order of an inferred focus list is the iteration
\* order of a set of strings, which the interpreter's hash seed decides).
MergeOutcomes(c, validated) ==
    LET merged == Merge(ModelDump(c), validated)
        infer == InferenceRuns(merged)
    IN  IF infer /\ merged["description"].t # "str"
        THEN {ExtractRaised("AttributeError", c)}
        ELSE LET focusLists ==
                     IF infer
                     THEN {JList([i \in 1..Len(o) |-> JStr(o[i])]) :
                              o \in Orders(InferFocus(merged["description"].s))}
                     ELSE {JNull}
             IN  {LET dict == IF infer THEN Both(merged, Pair("achievement_focus", fl))
                                       ELSE merged
                  IN  IF ~PydanticValid(dict)
                      THEN ExtractRaised("ValidationError", c)
                      ELSE Returned(validated, CheckCompleteness(UserContext(dict)),
                                    UserContext(dict))
                  : fl \in focusLists}

\* What extract_fields(c, ...) comes to when the gateway call came back with
\* reply.
ExtractOutcomes(c, reply) == MergeOutcomes(c, ValidatedFields(ParseExtracted(reply)))

\* ---- contexts a request may carry
EmptyContext == [f \in FieldNames |-> JNull]
With(c, updates) == [f \in FieldNames |-> IF f \in DOMAIN updates THEN updates[f] ELSE c[f]]

Acme == JStr(<<"A", "c", "m", "e">>)
Ceo == JStr(<<"C", "E", "O">>)
FocusAI == JStr(<<"A", "I">>)
FocusInnovation == JStr(<<"I", "n", "n", "o", "v", "a", "t", "i", "o", "n">>)

ProfileContext ==
    With(EmptyContext,
         Both(Pair("geography", JStr(Geography[1].value)),
              Both(Pair("organization_name", Acme), Pair("job_title", Ceo))))
AlmostCompleteContext ==
    With(ProfileContext,
         Both(Pair("org_type", JStr(OrganizationType[1].value)),
              Both(Pair("org_size", JStr(OrganizationSize[1].value)),
                   Both(Pair("nomination_subject", JStr(NominationSubject[1].value)),
                        Pair("achievement_focus", JList(<<FocusAI>>))))))
DescribedContext ==
    With(EmptyContext,
         Both(Pair("description", JStr(DescShort)), Pair("achievement_focus", JList(<< >>))))
\* the five fields a nomination needs
FiveRequired == {"org_type", "org_size", "nomination_subject", "description",
                 "achievement_focus"}
\* every required field set
CompleteContext == With(AlmostCompleteContext, Pair("description", JStr(DescHealth)))
\* all required fields but f set
Lacking(f) == With(CompleteContext, Pair(f, JNull))
SeedContexts ==
    {EmptyContext, ProfileContext, AlmostCompleteContext, DescribedContext}
        \cup {Lacking(f) : f \in FiveRequired}

\* ---- what the gateway call may come back with
OutOfSetWord == JStr(<<"s", "o", "o", "p", "e", "r", "-", "s", "i", "z", "e">>)
FortyTwo == JNum(<<"4", "2">>)

RawEnumValues(f) ==
    {JStr(ENUM_MAPPINGS(f)[1].value), JStr(ENUM_MAPPINGS(f)[2].name),
     JStr(Styled(ENUM_MAPPINGS(f)[Len(ENUM_MAPPINGS(f))].value, "title", "-")),
     OutOfSetWord, JNull, FortyTwo}
RawDescriptions == {JStr(d) : d \in Descriptions} \cup {JNull, FortyTwo}
RawFocus ==
    {JList(<<FocusAI, FocusInnovation>>), JList(<< >>), JList(<<JStr(<< >>), FocusAI>>),
     JList(<<FortyTwo>>), JStr(<<"A", "I", ",", " ", ",", " ", "M", "L", " ">>), JStr(<< >>), FortyTwo, JNull}
RawNames == {Acme, FortyTwo, JNull}

RawValues(k) ==
    IF k \in EnumFields THEN RawEnumValues(k)
    ELSE IF k = "description" THEN RawDescriptions
    ELSE IF k = "achievement_focus" THEN RawFocus
    ELSE RawNames

\* a key the prompt does not ask for
UnknownKey == "award_name"

SingleFieldObjects == {Pair(UnknownKey, val) : val \in RawNames}
                       \cup UNION {{Pair(k, val) : val \in RawValues(k)} : k \in FieldNames}
TwoFieldObjects ==
    {Both(Pair("org_size", OutOfSetWord), Pair("description", JStr(DescHealth))),
     Both(Pair("org_size", OutOfSetWord), Pair("description", FortyTwo)),
     Both(Pair("org_type", OutOfSetWord), Pair("org_size", JStr(OrganizationSize[2].name))),
     Both(Pair("nomination_subject", JStr(NominationSubject[2].value)),
          Pair("achievement_focus", JList(<< >>))),
     Both(Pair("description", JStr(DescMarketing)),
          Pair("achievement_focus", JList(<<FocusInnovation>>))),
     Both(Pair("description", JStr(Desc51)), Pair("org_type", JStr(OrganizationType[2].value)))}
Objects == {EmptyMap} \cup SingleFieldObjects \cup TwoFieldObjects

ExtractReply(kind, fields) == [kind |-> kind, fields |-> fields]
ExtractReplies ==
    {ExtractReply("object", o) : o \in Objects}
        \cup {ExtractReply("fenced", o) : o \in TwoFieldObjects}
        \cup {ExtractReply(kind, EmptyMap) : kind \in {"text", "nonobject", "raised"}}

\* ---- the HTTP boundary of the routes
\* str(e): the message of the exception, which the model identifies with
\* the exception
StrOfException(e) == e

NoBody == EmptyMap
Http200(body) == [status |-> 200, body |-> body, detail |-> << >>]
\* HTTPException(status_code=500, detail=f"{prefix}: {str(e)}")
Http500(prefix, e) ==
    [status |-> 500, body |-> NoBody, detail |-> <<prefix, StrOfException(e)>>]
NoResponse == [status |-> 0, body |-> NoBody, detail |-> << >>]

\* the extract-fields route: its try block around extract_fields and
\* ExtractFieldsResponse(**result), and its except branch
ExtractRoute(result) ==
    IF result.raised # "none"
    THEN Http500("Failed to extract fields: ", result.raised)
    ELSE Http200(result)

NoReply == ExtractReply("none", EmptyMap)
NoOutcome == ExtractRaised("pending", EmptyContext)

ExtractInit ==
    /\ StreamIdle
    /\ GwIdle
    /\ ClassifyIdle
    /\ ValidateIdle
    /\ MergeIdle
    /\ QuestionIdle
    /\ ctx \in SeedContexts
    /\ eReply = NoReply
    /\ ePc = "ready"
    /\ eOut = NoOutcome
    /\ eResponse = NoResponse
    /\ turns = 0
    /\ PromptIdle
    /\ ExplainIdle
    /\ TurnsIdle

\* one extract-fields request: the route, its call of
\* extract_fields(ctx, ...) and the gateway call of that
ExtractFields ==
    /\ ePc = "ready"
    /\ \E reply \in ExtractReplies :
         /\ eReply' = reply
         /\ eOut' \in ExtractOutcomes(ctx, reply)
    /\ eResponse' = ExtractRoute(eOut')
    /\ ePc' = "done"
    /\ turns' = turns + 1
    /\ UNCHANGED ctx
    /\ UNCHANGED nonExtractVars

\* the next request of the conversation carries the context just returned
NextRequest ==
    /\ ePc = "done"
    /\ eOut.raised = "none"
    /\ turns < MaxTurns
    /\ ctx' = eOut.updated_context
    /\ eReply' = NoReply
    /\ eOut' = NoOutcome
    /\ eResponse' = NoResponse
    /\ ePc' = "ready"
    /\ UNCHANGED turns
    /\ UNCHANGED nonExtractVars

ExtractNext ==
    \/ ExtractFields
    \/ NextRequest

SpecExtract == ExtractInit /\ [][ExtractNext]_vars

\* ------------------------------------------------------------------------
\* Properties of extract_fields
\* ------------------------------------------------------------------------
ParsedObject == eReply.kind \in {"object", "fenced"}

\* the raw value is no member of the field's closed set in any accepted
\* spelling
OutOfSet(f, val) ==
    \A m \in MembersOf(f) :
        /\ ~IsVariantOf(PyStr(val), m.value)
        /\ ~IsVariantOf(PyStr(val), StrLower(m.name))

\* the enumerated fields for which the reply carries an out-of-set value
RejectedFields ==
    {f \in EnumFields \cap DOMAIN eReply.fields : OutOfSet(f, eReply.fields[f])}

\* every value the reply gives for a field that is not enumerated is of the
\* field's type
OthersWellTyped ==
    \A k \in (DOMAIN eReply.fields) \cap (FieldNames \ EnumFields) :
        \/ eReply.fields[k].t \in {"null", "str"}
        \/ k = "achievement_focus" /\ eReply.fields[k].t = "num"
        \/ /\ k = "achievement_focus"
           /\ eReply.fields[k].t = "list"
           /\ \A i \in 1..Len(eReply.fields[k].l) : eReply.fields[k].l[i].t = "str"

ExtractReturned == ePc = "done" /\ eOut.raised = "none"

\* C11: in every context extract_fields returns, achievement_focus is absent
\* or a list whose elements are all non-empty strings, whatever the reply
\* held for it.
C11_FocusNonEmptyStrings ==
    ExtractReturned =>
        LET a == eOut.updated_context["achievement_focus"]
        IN  \/ a = JNull
            \/ /\ a.t = "list"
               /\ \A i \in 1..Len(a.l) : a.l[i].t = "str" /\ a.l[i].s # << >>

\* C12: every key of the returned extracted_fields is a field of the context
\* and the returned context holds for it exactly the extracted value.
C12_ExtractedFieldsInContext ==
    ExtractReturned =>
        \A k \in DOMAIN eOut.extracted_fields :
            /\ k \in FieldNames
            /\ eOut.updated_context[k] = eOut.extracted_fields[k]

\* the inference fallback ran in the turn just completed
InferenceRan == InferenceRuns(Merge(ModelDump(ctx), eOut.extracted_fields))

\* C13: in the returned context every field that is no key of the validated
\* fields has the value it had in the context passed in, except
\* achievement_focus when the inference fallback fills it.
C13_OtherFieldsUntouched ==
    ExtractReturned =>
        \A f \in FieldNames \ DOMAIN eOut.extracted_fields :
            \/ f = "achievement_focus" /\ InferenceRan
            \/ eOut.updated_context[f] = ctx[f]

C13_Witness ==
    /\ ExtractReturned
    /\ ctx = ProfileContext
    /\ DOMAIN eOut.extracted_fields = {"description"}
    /\ InferenceRan
    /\ eOut.updated_context["geography"] = JStr(Geography[1].value)
    /\ eOut.updated_context["achievement_focus"] # JNull

\* ------------------------------------------------------------------------
\* The merge step (lines 214-231) applied repeatedly to its own result
\* ------------------------------------------------------------------------
MaxApplications == 2

MarketingContext == With(EmptyContext, Pair("description", JStr(DescMarketing)))
MergeContexts == SeedContexts \cup {MarketingContext}
ValidatedMaps == {ValidatedFields(o) : o \in Objects}

MergeInit ==
    /\ StreamIdle
    /\ GwIdle
    /\ ClassifyIdle
    /\ ValidateIdle
    /\ ExtractIdle
    /\ QuestionIdle
    /\ mCtx \in MergeContexts
    /\ mValidated \in ValidatedMaps
    /\ mOuts = << >>
    /\ mHash = {}
    /\ PromptIdle
    /\ ExplainIdle
    /\ TurnsIdle

\* the context the next application starts from
MergeInput == IF mOuts = << >> THEN mCtx ELSE mOuts[Len(mOuts)].updated_context

\* the order in which the interpreter iterated the tags inferred from
\* description d
HashOrder(d, focus) == [d |-> d, o |-> focus]

\* one application of the merge, the inference fallback and the completeness
\* check to MergeInput; within one interpreter the same description always
\* gives the inferred tags in the same order
ApplyMerge ==
    /\ Len(mOuts) < MaxApplications
    /\ mOuts # << >> => mOuts[Len(mOuts)].raised = "none"
    /\ LET merged == Merge(ModelDump(MergeInput), mValidated)
       IN  \E out \in MergeOutcomes(MergeInput, mValidated) :
              /\ mOuts' = Append(mOuts, out)
              /\ IF InferenceRuns(merged) /\ out.raised = "none"
                 THEN LET h == HashOrder(merged["description"].s,
                                         out.updated_context["achievement_focus"])
                      IN  /\ \A e \in mHash : e.d = h.d => e = h
                          /\ mHash' = mHash \cup {h}
                 ELSE UNCHANGED mHash
    /\ UNCHANGED <<mCtx, mValidated>>
    /\ UNCHANGED nonMergeVars

MergeNext ==
    \/ ApplyMerge

SpecMerge == MergeInit /\ [][MergeNext]_vars

\* C14: applying the same validated fields again to the context the first
\* application produced raises nothing and yields the same context and the
\* same is_complete as the first application.
C14_MergeIdempotent ==
    \A i \in 2..Len(mOuts) :
        mOuts[1].raised = "none" =>
            /\ mOuts[i].raised = "none"
            /\ mOuts[i].updated_context = mOuts[1].updated_context
            /\ mOuts[i].is_complete = mOuts[1].is_complete

C14_Witness ==
    /\ Len(mOuts) = 2
    /\ mCtx = MarketingContext
    /\ mValidated = Pair("achievement_focus", JList(<< >>))
    /\ mOuts[1].raised = "none"
    /\ Len(mOuts[1].updated_context["achievement_focus"].l) = 2
    /\ mOuts[2].updated_context = mOuts[1].updated_context
AllFiveSet(c) == \A f \in FiveRequired : c[f] # JNull

\* C15: over chained turns, is_complete is false after every turn that
\* leaves a required field unset and true after the turn that leaves all
\* five set, whichever field arrives last.
C15_CompleteWhenAllFiveSet ==
    ExtractReturned => (eOut.is_complete <=> AllFiveSet(eOut.updated_context))

\* a second turn sets the last missing field after a first turn that left
\* the context incomplete
C15_Witness ==
    /\ ExtractReturned
    /\ turns = 2
    /\ ~AllFiveSet(ctx)
    /\ ctx["nomination_subject"] = JNull
    /\ "nomination_subject" \in DOMAIN eOut.extracted_fields
    /\ eOut.is_complete

\* C16: is_complete is true exactly when the five required fields are
\* present in the returned context and achievement_focus is a non-empty list.
C16_CompleteIffFocusNonEmpty ==
    ExtractReturned =>
        (eOut.is_complete <=>
            /\ AllFiveSet(eOut.updated_context)
            /\ eOut.updated_context["achievement_focus"].t = "list"
            /\ eOut.updated_context["achievement_focus"].l # << >>)

\* the dict of the turn just completed, after the merge and before the
\* fallback
MergedDict == Merge(ModelDump(ctx), eOut.extracted_fields)
MergedValue(k) == IF k \in DOMAIN MergedDict THEN MergedDict[k] ELSE JNull
MergedFocusEmpty ==
    \/ MergedValue("achievement_focus") = JNull
    \/ /\ MergedValue("achievement_focus").t = "list"
       /\ MergedValue("achievement_focus").l = << >>
NoTagTwice(l) == \A i, j \in 1..Len(l) : l[i] = l[j] => i = j

\* what the fallback does to achievement_focus when it has to run (must)
\* and when it has not
FallbackSetsFocusWhen(must) ==
    LET a == eOut.updated_context["achievement_focus"]
    IN  IF must
        THEN /\ a.t = "list"
             /\ a.l # << >>
             /\ NoTagTwice(a.l)
        ELSE a = MergedValue("achievement_focus")

\* C17 as stated: the fallback sets achievement_focus exactly when, after the
\* merge, achievement_focus is absent or empty and description is present
\* (not None); it never replaces a non-empty achievement_focus, and what it
\* sets is non-empty without a repeated tag.
C17_FallbackWhenDescriptionPresent ==
    ExtractReturned =>
        FallbackSetsFocusWhen(MergedFocusEmpty /\ MergedValue("description") # JNull)

\* C17: the fallback sets achievement_focus exactly when, after the merge,
\* achievement_focus is absent or empty and description is a non-empty
\* string; it never replaces a non-empty achievement_focus, and what it sets
\* is non-empty without a repeated tag.
C17_FallbackWhenDescriptionNonEmpty ==
    ExtractReturned =>
        FallbackSetsFocusWhen(/\ MergedFocusEmpty
                              /\ MergedValue("description").t = "str"
                              /\ MergedValue("description").s # << >>)

C17_Witness ==
    /\ ExtractReturned
    /\ ctx = DescribedContext
    /\ MergedFocusEmpty
    /\ MergedValue("description") = JStr(DescMarketing)
    /\ Len(eOut.updated_context["achievement_focus"].l) = 2

\* the description occurs in neither table
MatchesNothing(description) ==
    /\ MatchedAreas(KeywordsMap, StrLower(description)) = {}
    /\ MatchedAreas(AchievementPatterns, StrLower(description)) = {}
Unmatched == {d \in Descriptions : MatchesNothing(d)}

\* the fallback ran in the turn just completed on a description that matches
\* nothing
InferredByLength ==
    /\ ExtractReturned
    /\ InferenceRan
    /\ MergedValue("description").s \in Unmatched

OneTag(tag) == JList(<<JStr(tag)>>)

\* C18 as stated: for a description that matches neither table, inference
\* returns exactly "General Achievement" when the description has fewer than
\* 50 characters and exactly "Business Excellence" when it has 50 or more.
C18_DefaultTagFromFifty ==
    InferredByLength =>
        eOut.updated_context["achievement_focus"] =
            OneTag(IF Len(MergedValue("description").s) < 50
                   THEN GeneralAchievement ELSE BusinessExcellence)

\* C18: for a description that matches neither table, inference returns
\* exactly "General Achievement" when the description has 50 characters or
\* fewer and exactly "Business Excellence" when it has more than 50.
C18_DefaultTagAboveFifty ==
    InferredByLength =>
        eOut.updated_context["achievement_focus"] =
            OneTag(IF Len(MergedValue("description").s) <= 50
                   THEN GeneralAchievement ELSE BusinessExcellence)

C18_Witness ==
    /\ InferredByLength
    /\ MergedValue("description") = JStr(Desc50)
    /\ Len(Desc50) = 50
    /\ eOut.updated_context["achievement_focus"] = OneTag(GeneralAchievement)

\* the gateway call of the turn failed, or its reply is no JSON text
GatewayFailedOrNotJson == ePc = "done" /\ eReply.kind \in {"raised", "text"}
\* c has no focus area (none, or an empty list) and a non-empty description
FocusToInfer(c) ==
    /\ c["achievement_focus"] = JNull \/ c["achievement_focus"] = JList(<< >>)
    /\ c["description"] # JNull
    /\ c["description"].s # << >>
TagsOf(val) == {val.l[i].s : i \in 1..Len(val.l)}

\* C26: when the gateway call fails or the reply is not valid JSON,
\* extract_fields does not raise, returns an empty extracted_fields map, and
\* returns the input context, except that achievement_focus holds the tags
\* inferred from the description where the context has a description and no
\* focus area.
C26_FailedExtractionKeepsContext ==
    GatewayFailedOrNotJson =>
        /\ eOut.raised = "none"
        /\ eOut.extracted_fields = EmptyMap
        /\ \A f \in FieldNames \ {"achievement_focus"} : eOut.updated_context[f] = ctx[f]
        /\ IF FocusToInfer(ctx)
           THEN /\ eOut.updated_context["achievement_focus"].t = "list"
                /\ eOut.updated_context["achievement_focus"].l # << >>
                /\ TagsOf(eOut.updated_context["achievement_focus"])
                      = InferAchievementFocus(ctx["description"].s)
           ELSE eOut.updated_context["achievement_focus"] = ctx["achievement_focus"]

C26_Witness ==
    /\ GatewayFailedOrNotJson
    /\ eReply.kind = "raised"
    /\ FocusToInfer(ctx)
    /\ ctx["org_type"] # JNull
    /\ eOut.raised = "none"
    /\ eOut.updated_context["achievement_focus"] # JNull
    /\ eOut.updated_context["org_type"] = ctx["org_type"]

\* C28: over turns that pass each updated context on as the next input, a
\* field present after one turn is present after every later turn, whatever
\* the model replies, and is_complete, once true, stays true.
C28_PresentFieldsStayPresent ==
    (ePc = "done" /\ turns >= 2 /\ eOut.raised = "none") =>
        /\ \A f \in FieldNames : ctx[f] # JNull => eOut.updated_context[f] # JNull
        /\ CheckCompleteness(ctx) => eOut.is_complete

\* the texts of the exceptions extract_fields lets through to its route
ExtractExceptionTexts == {StrOfException(e) : e \in {"AttributeError", "ValidationError"}}

\* C23: a failure response sent at the request boundary holds no text of the
\* internal exception, so two failing requests that differ only in the
\* exception receive the same response (here: the HTTP 500 of extract-fields).
C23_FailureResponseHidesException ==
    (ePc = "done" /\ eResponse.status = 500) =>
        \A i \in 1..Len(eResponse.detail) : eResponse.detail[i] \notin ExtractExceptionTexts

\* ------------------------------------------------------------------------
\* QuestionGenerator
\* ------------------------------------------------------------------------
OrderDescriptionFirst == <<"description", "org_type", "org_size", "nomination_subject",
                           "achievement_focus", "tech_orientation", "operating_scope">>
OrderWithoutFocus == <<"org_type", "org_size", "nomination_subject", "description",
                       "tech_orientation", "operating_scope">>
FIELD_ORDER == <<"org_type", "org_size", "nomination_subject", "description",
                 "achievement_focus", "tech_orientation", "operating_scope">>

\* _get_next_field_to_collect: the loop over FIELD_ORDER from position i on;
\* "none" stands for None
RECURSIVE NextFieldFrom(_, _, _)
NextFieldFrom(order, dict, i) ==
    IF i > Len(order) THEN "none"
    ELSE IF order[i] \notin DOMAIN dict \/ dict[order[i]] = JNull THEN order[i]
    ELSE NextFieldFrom(order, dict, i + 1)

GetNextFieldToCollect(c) == NextFieldFrom(FIELD_ORDER, ModelDump(c), 1)

\* the fallback questions of generate_question and the text of .get's default
AskOrgType ==
    <<"W", "h", "a", "t", " ", "t", "y", "p", "e", " ", "o", "f", " ", "o", "r", "g", "a", "n",
      "i", "z", "a", "t", "i", "o", "n", " ", "a", "r", "e", " ", "y", "o", "u", " ", "n", "o",
      "m", "i", "n", "a", "t", "i", "n", "g", "?", " ", "(", "f", "o", "r", "-", "p", "r", "o",
      "f", "i", "t", ",", " ", "n", "o", "n", "-", "p", "r", "o", "f", "i", "t", ",", " ", "o",
      "r", " ", "g", "o", "v", "e", "r", "n", "m", "e", "n", "t", ")">>
AskOrgSize ==
    <<"W", "h", "a", "t", " ", "i", "s", " ", "t", "h", "e", " ", "s", "i", "z", "e", " ", "o",
      "f", " ", "y", "o", "u", "r", " ", "o", "r", "g", "a", "n", "i", "z", "a", "t", "i", "o",
      "n", "?", " ", "(", "s", "m", "a", "l", "l", ":", " ", "u", "p", " ", "t", "o", " ", "1",
      "0", "0", " ", "e", "m", "p", "l", "o", "y", "e", "e", "s", ",", " ", "m", "e", "d", "i",
      "u", "m", ":", " ", "1", "0", "1", "-", "2", ",", "5", "0", "0", ",", " ", "o", "r", " ",
      "l", "a", "r", "g", "e", ":", " ", "2", ",", "5", "0", "1", "+", ")">>
AskNominationSubject ==
    <<"W", "h", "a", "t", " ", "a", "r", "e", " ", "y", "o", "u", " ", "n", "o", "m", "i", "n",
      "a", "t", "i", "n", "g", "?", " ", "(", "o", "r", "g", "a", "n", "i", "z", "a", "t", "i",
      "o", "n", ",", " ", "t", "e", "a", "m", ",", " ", "i", "n", "d", "i", "v", "i", "d", "u",
      "a", "l", ",", " ", "o", "r", " ", "p", "r", "o", "d", "u", "c", "t", ")">>
AskDescription ==
    <<"P", "l", "e", "a", "s", "e", " ", "d", "e", "s", "c", "r", "i", "b", "e", " ", "t", "h",
      "e", " ", "a", "c", "h", "i", "e", "v", "e", "m", "e", "n", "t", " ", "o", "r", " ", "a",
      "c", "c", "o", "m", "p", "l", "i", "s", "h", "m", "e", "n", "t", " ", "y", "o", "u", "'",
      "d", " ", "l", "i", "k", "e", " ", "t", "o", " ", "n", "o", "m", "i", "n", "a", "t", "e",
      ".">>
AskAchievementFocus ==
    <<"W", "h", "a", "t", " ", "a", "r", "e", "a", "s", " ", "d", "o", "e", "s", " ", "t", "h",
      "i", "s", " ", "a", "c", "h", "i", "e", "v", "e", "m", "e", "n", "t", " ", "f", "o", "c",
      "u", "s", " ", "o", "n", "?", " ", "(", "e", ".", "g", ".", ",", " ", "M", "a", "r", "k",
      "e", "t", "i", "n", "g", ",", " ", "I", "n", "n", "o", "v", "a", "t", "i", "o", "n", ",",
      " ", "C", "u", "s", "t", "o", "m", "e", "r", " ", "S", "e", "r", "v", "i", "c", "e", ",",
      " ", "T", "e", "c", "h", "n", "o", "l", "o", "g", "y", ")">>
AskTechOrientation ==
    <<"H", "o", "w", " ", "w", "o", "u", "l", "d", " ", "y", "o", "u", " ", "d", "e", "s", "c",
      "r", "i", "b", "e", " ", "y", "o", "u", "r", " ", "o", "r", "g", "a", "n", "i", "z", "a",
      "t", "i", "o", "n", "'", "s", " ", "r", "e", "l", "a", "t", "i", "o", "n", "s", "h", "i",
      "p", " ", "w", "i", "t", "h", " ", "t", "e", "c", "h", "n", "o", "l", "o", "g", "y", "?",
      " ", "(", "t", "e", "c", "h", " ", "c", "o", "m", "p", "a", "n", "y", ",", " ", "t", "e",
      "c", "h", " ", "u", "s", "e", "r", ",", " ", "o", "r", " ", "n", "o", "n", "-", "t", "e",
      "c", "h", ")">>
AskOperatingScope ==
    <<"W", "h", "a", "t", " ", "i", "s", " ", "y", "o", "u", "r", " ", "o", "r", "g", "a", "n",
      "i", "z", "a", "t", "i", "o", "n", "'", "s", " ", "o", "p", "e", "r", "a", "t", "i", "n",
      "g", " ", "s", "c", "o", "p", "e", "?", " ", "(", "l", "o", "c", "a", "l", ",", " ", "r",
      "e", "g", "i", "o", "n", "a", "l", ",", " ", "n", "a", "t", "i", "o", "n", "a", "l", ",",
      " ", "o", "r", " ", "i", "n", "t", "e", "r", "n", "a", "t", "i", "o", "n", "a", "l", ")">>
AskMore ==
    <<"C", "o", "u", "l", "d", " ", "y", "o", "u", " ", "t", "e", "l", "l", " ", "m", "e", " ",
      "m", "o", "r", "e", " ", "a", "b", "o", "u", "t", " ", "y", "o", "u", "r", " ", "n", "o",
      "m", "i", "n", "a", "t", "i", "o", "n", "?">>
ThankYou ==
    <<"T", "h", "a", "n", "k", " ", "y", "o", "u", "!", " ", "I", " ", "h", "a", "v", "e", " ",
      "a", "l", "l", " ", "t", "h", "e", " ", "i", "n", "f", "o", "r", "m", "a", "t", "i", "o",
      "n", " ", "n", "e", "e", "d", "e", "d", " ", "t", "o", " ", "f", "i", "n", "d", " ", "t",
      "h", "e", " ", "b", "e", "s", "t", " ", "S", "t", "e", "v", "i", "e", " ", "A", "w", "a",
      "r", "d", "s", " ", "c", "a", "t", "e", "g", "o", "r", "i", "e", "s", " ", "f", "o", "r",
      " ", "y", "o", "u", ".">>

FallbackQuestions ==
    [f \in {FIELD_ORDER[i] : i \in 1..Len(FIELD_ORDER)} |->
        CASE f = "org_type" -> AskOrgType
          [] f = "org_size" -> AskOrgSize
          [] f = "nomination_subject" -> AskNominationSubject
          [] f = "description" -> AskDescription
          [] f = "achievement_focus" -> AskAchievementFocus
          [] f = "tech_orientation" -> AskTechOrientation
          [] OTHER -> AskOperatingScope]
FallbackQuestion(f) == IF f \in DOMAIN FallbackQuestions THEN FallbackQuestions[f] ELSE AskMore

\* str.strip(chars)
RECURSIVE LStripOf(_, _)
LStripOf(str, chars) ==
    IF str # << >> /\ Head(str) \in chars THEN LStripOf(Tail(str), chars) ELSE str
RECURSIVE RStripOf(_, _)
RStripOf(str, chars) ==
    IF str # << >> /\ str[Len(str)] \in chars
    THEN RStripOf(SubSeq(str, 1, Len(str) - 1), chars) ELSE str
StripOf(str, chars) == LStripOf(RStripOf(str, chars), chars)

\* question.strip().strip('"').strip("'")
CleanQuestion(text) == StripOf(StripOf(StripOf(text, {" "}), {"\""}), {"'"})

\* f"collecting_{next_field}"
Collecting(f) == <<"collecting_", f>>
Complete == <<"complete">>

QuestionResult(question, message, state) ==
    [raised |-> "none", question |-> question, message |-> message,
     conversation_state |-> state, extracted_fields |-> EmptyMap]
QuestionRaised(e) ==
    [raised |-> e, question |-> << >>, message |-> << >>,
     conversation_state |-> << >>, extracted_fields |-> EmptyMap]
NoText == <<"None">>

\* the except branch of generate_question
OnGatewayFailureRaise(next, e) == QuestionRaised(e)
OnGatewayFailure(next, e) == QuestionResult(FallbackQuestion(next), NoText, Collecting(next))

\* what the gateway call of generate_question may come back with
GatewayText(text) == [kind |-> "text", text |-> text, err |-> "none"]
GatewayRaised(e) == [kind |-> "raised", text |-> << >>, err |-> e]
GatewayNotCalled == [kind |-> "notcalled", text |-> << >>, err |-> "none"]
QuestionTexts ==
    {<<"W", "h", "a", "t", " ", "t", "y", "p", "e", " ", "o", "f", " ", "o", "r", "g", "a", "n", "i", "z", "a", "t", "i", "o", "n", "?">>,
     <<" ", "\"", "W", "h", "a", "t", " ", "s", "i", "z", "e", "?", "\"", " ">>,
     <<"'", "T", "e", "l", "l", " ", "m", "e", " ", "m", "o", "r", "e", "'", " ">>,
     << >>}
QuestionReplies == {GatewayText(t) : t \in QuestionTexts} \cup {GatewayRaised(e) : e \in AttemptErrors}

\* generate_question(c, ...) when the gateway call, if made, comes back with
\* reply
GenerateQuestionResult(c, reply) ==
    LET next == GetNextFieldToCollect(c)
    IN  IF next = "none" THEN QuestionResult(NoText, ThankYou, Complete)
        ELSE IF reply.kind = "raised" THEN OnGatewayFailure(next, reply.err)
        ELSE QuestionResult(CleanQuestion(reply.text), NoText, Collecting(next))

\* ---- the contexts a generate-question request may carry
OrderedFields == {FIELD_ORDER[i] : i \in 1..Len(FIELD_ORDER)}
SampleValue(f) ==
    IF f \in EnumFields THEN JStr(ENUM_MAPPINGS(f)[1].value)
    ELSE IF f = "description" THEN JStr(DescShort)
    ELSE JList(<<FocusAI>>)
ContextWith(S) == With(ProfileContext, [f \in OrderedFields |-> IF f \in S THEN SampleValue(f) ELSE JNull])
QuestionContexts ==
    {ContextWith(S) : S \in SUBSET OrderedFields}
        \cup {EmptyContext, DescribedContext,
              With(ContextWith(OrderedFields), Pair("achievement_focus", JList(<< >>))),
              With(ContextWith(OrderedFields), Pair("description", JStr(<< >>)))}

\* ---- the generate-question route
\* GenerateQuestionResponse(**result): question and conversation_state must
\* be strings
QuestionResponseValid(result) ==
    /\ result.question # NoText
    /\ result.conversation_state # NoText

\* the route's try block around generate_question and its except branch
QuestionRoute(result) ==
    IF result.raised # "none"
    THEN Http500("Failed to generate question: ", result.raised)
    ELSE IF ~QuestionResponseValid(result)
    THEN Http500("Failed to generate question: ", "ValidationError")
    ELSE Http200(result)

QuestionInit ==
    /\ StreamIdle
    /\ GwIdle
    /\ ClassifyIdle
    /\ ValidateIdle
    /\ ExtractIdle
    /\ MergeIdle
    /\ qCtx \in QuestionContexts
    /\ qPc = "ready"
    /\ qNext = "none"
    /\ qGateway = GatewayNotCalled
    /\ qCalls = 0
    /\ qOut = QuestionRaised("pending")
    /\ qResponse = NoResponse
    /\ PromptIdle
    /\ ExplainIdle
    /\ TurnsIdle

\* one generate-question request: the route, its call of
\* generate_question(qCtx, ...) and the gateway call of that
GenerateQuestion ==
    /\ qPc = "ready"
    /\ qNext' = GetNextFieldToCollect(qCtx)
    /\ IF qNext' = "none"
       THEN /\ qGateway' = GatewayNotCalled
            /\ qCalls' = qCalls
            /\ qOut' = GenerateQuestionResult(qCtx, GatewayNotCalled)
       ELSE \E reply \in QuestionReplies :
              /\ qGateway' = reply
              /\ qCalls' = qCalls + 1
              /\ qOut' = GenerateQuestionResult(qCtx, reply)
    /\ qResponse' = QuestionRoute(qOut')
    /\ qPc' = "done"
    /\ UNCHANGED qCtx
    /\ UNCHANGED nonQuestionVars

QuestionNext ==
    \/ GenerateQuestion

SpecQuestion == QuestionInit /\ [][QuestionNext]_vars

\* ------------------------------------------------------------------------
\* Properties of the question generator
\* ------------------------------------------------------------------------
\* the priority order of the fields to collect
PriorityOrder == <<"org_type", "org_size", "nomination_subject", "description",
                   "achievement_focus", "tech_orientation", "operating_scope">>
Absent(c, f) == c[f] = JNull
\* position i holds the first field of the priority order absent from c
FirstAbsentAt(c, i) ==
    /\ Absent(c, PriorityOrder[i])
    /\ \A j \in 1..(i - 1) : ~Absent(c, PriorityOrder[j])

\* C19: the next field is the first field of the fixed order absent from the
\* context, and it is None exactly when all seven fields are present.
C19_NextFieldIsFirstAbsent ==
    qPc = "done" =>
        /\ qNext = "none" <=> \A i \in 1..Len(PriorityOrder) : ~Absent(qCtx, PriorityOrder[i])
        /\ \A i \in 1..Len(PriorityOrder) :
              FirstAbsentAt(qCtx, i) => qNext = PriorityOrder[i]

C19_Witness ==
    /\ qPc = "done"
    /\ ~Absent(qCtx, "org_type")
    /\ ~Absent(qCtx, "org_size")
    /\ Absent(qCtx, "nomination_subject")
    /\ Absent(qCtx, "description")
    /\ ~Absent(qCtx, "achievement_focus")
    /\ qNext = "nomination_subject"

\* C20: when a field F of the priority order is missing and the gateway call
\* fails, generate_question raises nothing and returns the canned question of
\* F with conversation_state "collecting_F", the state it also returns when
\* the gateway call succeeds.
C20_CannedQuestionOnFailure ==
    qPc = "done" =>
        \A i \in 1..Len(PriorityOrder) :
            FirstAbsentAt(qCtx, i) =>
                /\ qOut.raised = "none"
                /\ qOut.conversation_state = <<"collecting_", PriorityOrder[i]>>
                /\ qGateway.kind = "raised" =>
                      qOut.question =
                          CASE i = 1 -> AskOrgType
                            [] i = 2 -> AskOrgSize
                            [] i = 3 -> AskNominationSubject
                            [] i = 4 -> AskDescription
                            [] i = 5 -> AskAchievementFocus
                            [] i = 6 -> AskTechOrientation
                            [] OTHER -> AskOperatingScope

C20_Witness ==
    /\ qPc = "done"
    /\ qGateway = GatewayRaised("RateLimitError")
    /\ FirstAbsentAt(qCtx, 5)
    /\ qOut.raised = "none"
    /\ qOut.question = AskAchievementFocus
    /\ qOut.conversation_state = <<"collecting_", "achievement_focus">>

AllSevenPresent(c) == \A i \in 1..Len(PriorityOrder) : ~Absent(c, PriorityOrder[i])

\* C21: for a context in which no field of the priority order is missing, a
\* generate-question request makes no gateway call and answers its caller
\* with the fixed collection-complete message and the conversation_state
\* "complete".
C21_CompleteAnsweredWithoutGateway ==
    (qPc = "done" /\ AllSevenPresent(qCtx)) =>
        /\ qCalls = 0
        /\ qResponse.status = 200
        /\ qResponse.body.message = ThankYou
        /\ qResponse.body.conversation_state = <<"complete">>

\* the five fields the completeness check looks at
CompletenessFields == {"org_type", "org_size", "nomination_subject", "description",
                       "achievement_focus"}

\* C29: the selector and the completeness check agree on every context: when
\* the selector reports no next field the context is complete, and when the
\* context is not complete the selector's next field is one of the five
\* required fields.
C29_SelectorAgreesWithCompleteness ==
    qPc = "done" =>
        /\ qNext = "none" => CheckCompleteness(qCtx)
        /\ ~CheckCompleteness(qCtx) => qNext \in CompletenessFields

C29_Witness ==
    /\ qPc = "done"
    /\ ~CheckCompleteness(qCtx)
    /\ qNext = "achievement_focus"
    /\ \A f \in CompletenessFields \ {"achievement_focus"} : qCtx[f] # JNull
    /\ qCtx["operating_scope"] # JNull

\* ------------------------------------------------------------------------
\* Prompt composition: ConversationManager._build_user_prompt
\* ------------------------------------------------------------------------
\* a message of conversation_history
Message(role, content) == [role |-> role, content |-> content]

\* conversation_history[-4:] if len(conversation_history) >= 4 else conversation_history
RecentTurns == 4
RecentMessages(h) ==
    IF Len(h) >= RecentTurns THEN SubSeq(h, Len(h) - RecentTurns + 1, Len(h)) ELSE h

LongMessage == 100
MatchingCategories == <<"m", "a", "t", "c", "h", "i", "n", "g", " ",
                        "c", "a", "t", "e", "g", "o", "r", "i", "e", "s">>
HereAre == <<"h", "e", "r", "e", " ", "a", "r", "e">>
\* the one-character string U+2728
Sparkles == <<"SPARKLES">>

\* the condition of the any(...) at lines 161-168 for one message
ShowsRecommendations(msg) ==
    /\ msg.role = "assistant"
    /\ Len(msg.content) > LongMessage
    /\ \/ Contains(StrLower(msg.content), MatchingCategories)
       \/ Contains(msg.content, Sparkles)
       \/ Contains(StrLower(msg.content), HereAre)

RecommendationsShown(h) ==
    \E i \in 1..Len(RecentMessages(h)) : ShowsRecommendations(RecentMessages(h)[i])

\* kb_articles: None, or a list of n articles
KbNone == [none |-> TRUE, n |-> 0]
KbList(n) == [none |-> FALSE, n |-> n]
\* kb_articles is not None and len(kb_articles) > 0
HasRelevantKb(kb) == ~kb.none /\ kb.n > 0

\* the prompt is modelled by the template that was filled in
Prompt(kind) == [raised |-> "none", kind |-> kind]
PromptRaised(e) == [raised |-> e, kind |-> "none"]
NotBuilt == Prompt("pending")

\* reading attribute a of a UserContext: a name that is no field of the model
\* raises AttributeError
HasAttr(a) == a \in FieldNames

\* the "information" branch reads user_name, user_email, nomination_subject
\* and description off the context
InformationPrompt(c) ==
    IF \A a \in {"user_name", "user_email", "nomination_subject", "description"} : HasAttr(a)
    THEN Prompt("information")
    ELSE PromptRaised("AttributeError")

BuildUserPrompt(it, h, c, kb) ==
    IF RecommendationsShown(h) THEN Prompt("recommendations_shown")
    ELSE IF it = "question"
    THEN (IF HasRelevantKb(kb) THEN Prompt("question_kb") ELSE Prompt("question_no_kb"))
    ELSE IF it = "information" THEN InformationPrompt(c)
    ELSE IF HasRelevantKb(kb) THEN Prompt("mixed_kb") ELSE Prompt("mixed_no_kb")

\* ---- the histories a request may carry
Filler(n) == [i \in 1..n |-> "."]
\* text followed by filler up to n characters
PaddedTo(text, n) == text \o Filler(n - Len(text))
UserTurn == Message("user", <<"H", "i">>)
Offer(text, n) == Message("assistant", PaddedTo(text, n))
HereAreTitle == <<"H", "e", "r", "e", " ", "A", "r", "e">>
Plain == <<"W", "e", "l", "c", "o", "m", "e">>
Histories ==
    {<< >>,
     <<UserTurn>>,
     <<Offer(HereAreTitle, 101)>>,
     <<Offer(HereAre, 100), UserTurn>>,
     <<Offer(Plain, 101), UserTurn>>,
     <<Message("user", PaddedTo(MatchingCategories, 101))>>,
     <<Offer(Sparkles, 101), UserTurn, UserTurn, UserTurn>>,
     <<Offer(MatchingCategories, 101), UserTurn, UserTurn, UserTurn, UserTurn>>,
     <<UserTurn, Offer(MatchingCategories, 120), UserTurn, UserTurn, UserTurn>>,
     <<UserTurn, UserTurn, Offer(Plain, 101), Offer(HereAre, 8)>>}
KbInputs == {KbNone, KbList(0), KbList(1)}
PromptContexts == {EmptyContext, DescribedContext}

PromptInit ==
    /\ StreamIdle
    /\ GwIdle
    /\ ClassifyIdle
    /\ ValidateIdle
    /\ ExtractIdle
    /\ MergeIdle
    /\ QuestionIdle
    /\ ExplainIdle
    /\ TurnsIdle
    /\ intent \in Intents
    /\ history \in Histories
    /\ kbArticles \in KbInputs
    /\ userContext \in PromptContexts
    /\ prompt = NotBuilt

\* one call of _build_user_prompt
BuildPrompt ==
    /\ prompt = NotBuilt
    /\ prompt' = BuildUserPrompt(intent, history, userContext, kbArticles)
    /\ UNCHANGED promptInputs
    /\ UNCHANGED nonPromptVars

PromptNext ==
    \/ BuildPrompt

SpecPrompt == PromptInit /\ [][PromptNext]_vars

\* ------------------------------------------------------------------------
\* Properties of prompt composition
\* ------------------------------------------------------------------------
\* positions of the last four turns of h
LastFour(h) == {i \in 1..Len(h) : i > Len(h) - 4}
HasTriggerPhrase(text) ==
    \/ Contains(StrLower(text), MatchingCategories)
    \/ Contains(StrLower(text), HereAre)
    \/ Contains(text, Sparkles)
\* one of the last four turns is an assistant message of more than 100
\* characters that holds a trigger phrase
RecentOffer(h) ==
    \E i \in LastFour(h) :
        /\ h[i].role = "assistant"
        /\ Len(h[i].content) > 100
        /\ HasTriggerPhrase(h[i].content)
OwnBranch(it) ==
    CASE it = "question" -> {"question_kb", "question_no_kb"}
      [] it = "information" -> {"information"}
      [] OTHER -> {"mixed_kb", "mixed_no_kb"}

\* C27: the recommendations-already-shown prompt is selected, for every
\* intent and whatever KB articles are supplied, exactly when one of the last
\* four history turns is an assistant message longer than 100 characters that
\* holds a trigger phrase; otherwise the prompt of the intent's own branch is
\* built.
C27_OverrideExactlyOnRecentOffer ==
    prompt # NotBuilt =>
        IF RecentOffer(history)
        THEN prompt = Prompt("recommendations_shown")
        ELSE prompt.raised = "none" /\ prompt.kind \in OwnBranch(intent)

\* the selection of the override alone
OverrideSelection ==
    prompt # NotBuilt => (prompt = Prompt("recommendations_shown") <=> RecentOffer(history))

\* ------------------------------------------------------------------------
\* Streaming turn
\* ------------------------------------------------------------------------
Fragments == {"f1", "f2"}
NoContent == "None"
ApologyResponse == "I apologize, but I encountered an error. Could you please try again?"
ApologyAnswer == "I apologize, but I encountered an error generating an answer. Please try again or contact support."

Apology(ep) == IF ep = "chat" THEN ApologyResponse ELSE ApologyAnswer

Event(t, c) == [type |-> t, content |-> c]
FirstEventType(ep) == IF ep = "chat" THEN "intent" ELSE "metadata"

\* generate_response_stream: except Exception around prompt building and the loop
MgrCatchesNothing(e) == FALSE
MgrCatches(e) == IsException(e)

\* generate_answer_stream: except Exception around the loop
AnswerCatchesNothing(e) == FALSE
AnswerCatches(e) == IsException(e)

InnerCatches(ep, e) == IF ep = "chat" THEN MgrCatches(e) ELSE AnswerCatches(e)

\* /chat's event_generator wraps its body in try/except Exception;
\* /answer's event_generator has no handler.
RouteCatches(ep, e) == ep = "chat" /\ IsException(e)

\* the histories of the streaming turns: none, and one in which
\* recommendations were just shown
StreamHistories == {<< >>, <<Offer(HereAreTitle, 101)>>}

StreamInit ==
    /\ endpoint \in {"chat", "answer"}
    /\ IF endpoint = "chat"
       THEN /\ intent \in Intents
            /\ history \in StreamHistories
            /\ kbArticles = KbNone
            /\ userContext = EmptyContext
            /\ prompt = NotBuilt
       ELSE PromptIdle
    /\ events = << >>
    /\ routePc = "created"
    /\ mgrPc = "created"
    /\ gwPc = "created"
    /\ running = FALSE
    /\ streamRequests = 0
    /\ provChunks = 0
    /\ failure = "none"
    /\ disconnected = FALSE
    /\ GwIdle
    /\ ClassifyIdle
    /\ ValidateIdle
    /\ ExtractIdle
    /\ MergeIdle
    /\ QuestionIdle
    /\ ExplainIdle
    /\ TurnsIdle

\* The consumer (the server writing the response) asks the generator for the
\* next event.
Pull ==
    /\ ~running
    /\ ~disconnected
    /\ routePc \in {"created", "at_first", "at_chunk", "at_done", "at_error"}
    /\ running' = TRUE
    /\ UNCHANGED nonStreamVars
    /\ UNCHANGED prompt
    /\ UNCHANGED <<endpoint, events, routePc, mgrPc, gwPc, streamRequests,
                   provChunks, failure, disconnected>>

\* event_generator: the intent (metadata) event is yielded first.
RouteYieldFirst ==
    /\ running
    /\ routePc = "created"
    /\ events' = Append(events, Event(FirstEventType(endpoint), "-"))
    /\ routePc' = "at_first"
    /\ running' = FALSE
    /\ UNCHANGED nonStreamVars
    /\ UNCHANGED prompt
    /\ UNCHANGED <<endpoint, mgrPc, gwPc, streamRequests, provChunks,
                   failure, disconnected>>

\* An exception e raised inside chat_completion_stream (re-raised by its
\* except OpenAIError) reaches the inner generator's handler, which yields the
\* apology; were it not caught it would reach the route's handler.
RaiseInStream(e) ==
    /\ failure' = e
    /\ gwPc' = "raised"
    /\ running' = FALSE
    /\ IF InnerCatches(endpoint, e)
       THEN /\ mgrPc' = "at_apology"
            /\ events' = Append(events, Event("chunk", Apology(endpoint)))
            /\ routePc' = "at_chunk"
       ELSE /\ mgrPc' = "raised"
            /\ IF RouteCatches(endpoint, e)
               THEN /\ events' = Append(events, Event("error", "Failed to generate response"))
                    /\ routePc' = "at_error"
               ELSE /\ events' = events
                    /\ routePc' = "crashed"

\* An exception e raised while generate_response_stream builds its prompts,
\* inside its try block and before the gateway is called.
RaiseInPrompt(e) ==
    /\ running' = FALSE
    /\ UNCHANGED <<failure, gwPc, streamRequests>>
    /\ IF MgrCatches(e)
       THEN /\ mgrPc' = "at_apology"
            /\ events' = Append(events, Event("chunk", Apology(endpoint)))
            /\ routePc' = "at_chunk"
       ELSE /\ mgrPc' = "raised"
            /\ IF RouteCatches(endpoint, e)
               THEN /\ events' = Append(events, Event("error", "Failed to generate response"))
                    /\ routePc' = "at_error"
               ELSE /\ events' = events
                    /\ routePc' = "crashed"

\* the gateway issues its one create(stream=True) request, which opens a
\* stream or raises
OpenStream ==
    /\ streamRequests' = streamRequests + 1
    /\ \E o \in {"stream"} \cup StreamErrors :
          IF o = "stream"
          THEN /\ gwPc' = "iterating"
               /\ mgrPc' = "in_loop"
               /\ UNCHANGED <<events, routePc, running, failure>>
          ELSE RaiseInStream(o)

\* First next() of the inner generator: generate_response_stream builds its
\* prompts, which may raise, and the gateway is called; generate_answer_stream
\* has built its prompts outside its try block, from strings alone.
StreamRequest ==
    /\ running
    /\ routePc = "at_first"
    /\ mgrPc = "created"
    /\ IF endpoint = "chat"
       THEN /\ prompt' = BuildUserPrompt(intent, history, userContext, kbArticles)
            /\ IF prompt'.raised # "none" THEN RaiseInPrompt(prompt'.raised) ELSE OpenStream
       ELSE /\ prompt' = prompt
            /\ OpenStream
    /\ UNCHANGED nonStreamVars
    /\ UNCHANGED <<endpoint, provChunks, disconnected>>

\* The provider delivers a chunk; a delta without content is skipped, any
\* other is yielded through both generators and written as a chunk event.
ProviderChunk ==
    /\ running
    /\ gwPc = "iterating"
    /\ provChunks < MaxChunks
    /\ provChunks' = provChunks + 1
    /\ \E c \in Fragments \cup {NoContent} :
          IF c = NoContent
          THEN UNCHANGED <<events, routePc, running>>
          ELSE /\ events' = Append(events, Event("chunk", c))
               /\ routePc' = "at_chunk"
               /\ running' = FALSE
    /\ UNCHANGED nonStreamVars
    /\ UNCHANGED prompt
    /\ UNCHANGED <<endpoint, mgrPc, gwPc, streamRequests, failure, disconnected>>

\* The provider's stream raises while it is iterated.
ProviderFailRetry ==
    /\ running
    /\ gwPc = "iterating"
    /\ \E e \in StreamErrors : failure' = e
    /\ streamRequests' = streamRequests + 1
    /\ UNCHANGED nonStreamVars
    /\ UNCHANGED prompt
    /\ UNCHANGED <<endpoint, events, routePc, mgrPc, gwPc, running,
                   provChunks, disconnected>>

ProviderFail ==
    /\ running
    /\ gwPc = "iterating"
    /\ \E e \in StreamErrors : RaiseInStream(e)
    /\ UNCHANGED nonStreamVars
    /\ UNCHANGED prompt
    /\ UNCHANGED <<endpoint, streamRequests, provChunks, disconnected>>

\* The provider's stream ends: both generators return and the route yields done.
ProviderEnd ==
    /\ running
    /\ gwPc = "iterating"
    /\ gwPc' = "returned"
    /\ mgrPc' = "returned"
    /\ events' = Append(events, Event("done", "-"))
    /\ routePc' = "at_done"
    /\ running' = FALSE
    /\ UNCHANGED nonStreamVars
    /\ UNCHANGED prompt
    /\ UNCHANGED <<endpoint, streamRequests, provChunks, failure, disconnected>>

\* The inner generator is resumed after its apology: the handler ends, the
\* generator returns and the route yields done.
ResumeAfterApology ==
    /\ running
    /\ mgrPc = "at_apology"
    /\ mgrPc' = "returned"
    /\ events' = Append(events, Event("done", "-"))
    /\ routePc' = "at_done"
    /\ running' = FALSE
    /\ UNCHANGED nonStreamVars
    /\ UNCHANGED prompt
    /\ UNCHANGED <<endpoint, gwPc, streamRequests, provChunks, failure, disconnected>>

\* The route's generator is resumed after its terminal event and returns.
RouteFinish ==
    /\ running
    /\ routePc \in {"at_done", "at_error"}
    /\ routePc' = "finished"
    /\ running' = FALSE
    /\ UNCHANGED nonStreamVars
    /\ UNCHANGED prompt
    /\ UNCHANGED <<endpoint, events, mgrPc, gwPc, streamRequests, provChunks,
                   failure, disconnected>>

\* The consumer goes away while the route is suspended at a yield: the
\* generators are closed. GeneratorExit is no Exception, so neither the
\* route's nor the inner generator's handler runs.
DisconnectIgnored ==
    /\ ~running
    /\ ~disconnected
    /\ routePc \in {"at_first", "at_chunk"}
    /\ disconnected' = TRUE
    /\ running' = TRUE
    /\ UNCHANGED nonStreamVars
    /\ UNCHANGED prompt
    /\ UNCHANGED <<endpoint, events, routePc, mgrPc, gwPc, streamRequests,
                   provChunks, failure>>

Disconnect ==
    /\ ~running
    /\ ~disconnected
    /\ routePc \in {"at_first", "at_chunk"}
    /\ disconnected' = TRUE
    /\ routePc' = "closed"
    /\ mgrPc' = IF mgrPc \in {"in_loop", "at_apology"} THEN "closed" ELSE mgrPc
    /\ gwPc' = IF gwPc = "iterating" THEN "closed" ELSE gwPc
    /\ UNCHANGED nonStreamVars
    /\ UNCHANGED prompt
    /\ UNCHANGED <<endpoint, events, running, streamRequests, provChunks, failure>>

StreamNext ==
    \/ Pull
    \/ RouteYieldFirst
    \/ StreamRequest
    \/ ProviderChunk
    \/ ProviderFail
    \/ ProviderEnd
    \/ ResumeAfterApology
    \/ RouteFinish
    \/ Disconnect

SpecStream == StreamInit /\ [][StreamNext]_vars

\* ------------------------------------------------------------------------
\* Properties of the streaming turn
\* ------------------------------------------------------------------------
IsTerminal(ev) == ev.type \in {"done", "error"}
Terminals == {i \in 1..Len(events) : IsTerminal(events[i])}
TypesOf(evs) == {evs[i].type : i \in 1..Len(evs)}
\* the route's generator ran to its end (it was not closed by the consumer)
StreamEnded == routePc \in {"at_done", "at_error", "finished", "crashed"}

\* C1: the events of a stream are one intent (metadata) event, then chunk
\* events, then one terminal event; nothing follows the terminal event, a
\* stream never carries both done and error, and a stream that ran to its end
\* carries exactly one terminal event.
C1_EventOrder ==
    /\ \A i \in 1..Len(events) :
          /\ (i = 1) <=> (events[i].type = FirstEventType(endpoint))
          /\ i > 1 => events[i].type \in {"chunk", "done", "error"}
          /\ IsTerminal(events[i]) => i = Len(events)
    /\ ~({"done", "error"} \subseteq TypesOf(events))
    /\ routePc # "created" => Len(events) >= 1
    /\ StreamEnded => Cardinality(Terminals) = 1

C1_Witness ==
    /\ routePc = "finished"
    /\ Len(events) >= 4
    /\ events[Len(events)].type = "done"
    /\ events[2].type = "chunk"

\* C2 (as claimed): a /chat stream in which the provider call failed ends
\* with exactly one error event and carries no done event.
C2_FailureEndsWithError ==
    (endpoint = "chat" /\ failure # "none" /\ routePc = "finished")
        => /\ events[Len(events)].type = "error"
           /\ "done" \notin TypesOf(events)

\* C5: one streaming call issues at most one provider streaming request, and
\* none after the request has failed, with or without fragments yielded before.
C5_NoStreamRetry ==
    [][/\ streamRequests' <= 1
       /\ failure # "none" => streamRequests' = streamRequests]_vars

C5_Witness ==
    /\ failure # "none"
    /\ routePc = "finished"
    /\ \E i \in 1..Len(events) : events[i].content \in Fragments
    /\ streamRequests = 1

\* C6: once the consumer of a /chat stream has disconnected, no further event
\* is written and no provider request is issued for the turn.
C6_NothingAfterDisconnect ==
    [][(endpoint = "chat" /\ disconnected)
          => (events' = events /\ streamRequests' = streamRequests)]_vars

C6_Witness ==
    /\ endpoint = "chat"
    /\ disconnected
    /\ routePc = "closed"
    /\ gwPc = "closed"
    /\ Len(events) >= 2
    /\ ~(\E i \in 1..Len(events) : IsTerminal(events[i]))

ApologyEvents == {i \in 1..Len(events) : events[i] = Event("chunk", Apology(endpoint))}

\* C22: when the provider's streaming call fails, under either endpoint and
\* for every exception, the inner generator raises nothing (the route sees
\* neither an exception nor a crash), and the stream carries exactly one
\* apology chunk, placed after every fragment already delivered, whose text is
\* the endpoint's fixed sentence; every other chunk is a provider fragment.
C22_FailureYieldsFixedApology ==
    failure # "none" =>
        /\ mgrPc # "raised"
        /\ routePc \notin {"crashed", "at_error"}
        /\ "error" \notin TypesOf(events)
        /\ Cardinality(ApologyEvents) = 1
        /\ \A i \in 1..Len(events) :
              events[i].type = "chunk" =>
                 \/ events[i].content \in Fragments /\ \A j \in ApologyEvents : i < j
                 \/ i \in ApologyEvents

C22_Witness ==
    /\ failure # "none"
    /\ mgrPc = "returned"
    /\ Len(events) >= 4
    /\ events[2].content \in Fragments
    /\ events[Len(events) - 1] = Event("chunk", Apology(endpoint))
    /\ events[Len(events)].type = "done"

ChunkContents == [i \in {j \in 1..Len(events) : events[j].type = "chunk"} |-> events[i].content]

\* C30: generate_response_stream yields its apology only if the provider's
\* streaming call failed; when the provider's stream succeeds, for every
\* intent and history, the provider was called exactly once and the chunks
\* delivered are provider fragments, no more of them than the provider sent.
C30_ApologyOnlyOnProviderFailure ==
    endpoint = "chat" =>
        /\ ApologyEvents # {} => failure # "none"
        /\ gwPc = "returned" =>
              /\ streamRequests = 1
              /\ \A i \in DOMAIN ChunkContents : ChunkContents[i] \in Fragments
              /\ Cardinality(DOMAIN ChunkContents) <= provChunks

\* ------------------------------------------------------------------------
\* Match explanations: ExplanationGenerator
\* ------------------------------------------------------------------------
MaxCategories == 2

\* str.split("\n"); piece is the line read so far
RECURSIVE SplitLines(_, _)
SplitLines(str, piece) ==
    IF str = << >> THEN <<piece>>
    ELSE IF Head(str) = "\n" THEN <<piece>> \o SplitLines(Tail(str), << >>)
    ELSE SplitLines(Tail(str), Append(piece, Head(str)))

\* what str.strip() removes
Whitespace == {" ", "\n"}
\* the characters of lstrip("-•*"); "BULLET" is the one-character string U+2022
Bullets == {"-", "BULLET", "*"}

\* line.strip() and not line.strip().startswith("#")
IsReasonLine(line) ==
    LET t == StripOf(line, Whitespace) IN t # << >> /\ Head(t) # "#"
\* line.strip().lstrip("-•*").strip()
ReasonOf(line) == StripOf(LStripOf(StripOf(line, Whitespace), Bullets), Whitespace)

ParseReasons(response) ==
    LET kept == SelectSeq(SplitLines(StripOf(response, Whitespace), << >>), IsReasonLine)
    IN  [i \in 1..Len(kept) |-> ReasonOf(kept[i])]

MostReasons == 3
FewestReasons == 2
\* reasons[:3]
FirstThree(reasons) == SubSeq(reasons, 1, Min2(MostReasons, Len(reasons)))

\* the templated reasons
AlignsReason(c) ==
    <<"This category aligns with your ">> \o PyStr(c["nomination_subject"]) \o <<" nomination.">>
MatchesReason(c) ==
    <<"This category matches your ">> \o PyStr(c["nomination_subject"]) \o <<" nomination.">>
AchievementReason(c) ==
    <<"Your achievement in ">>
        \o (IF Truthy(c["achievement_focus"]) THEN PyStr(c["achievement_focus"].l[1])
            ELSE <<"this area">>)
        \o <<" aligns well with this category.">>

\* generate_explanation(c, category) when the gateway call comes back with reply
GenerateExplanation(c, reply) ==
    IF reply.kind = "raised" THEN <<MatchesReason(c), AchievementReason(c)>>
    ELSE LET reasons == FirstThree(ParseReasons(reply.text))
         IN  IF Len(reasons) < FewestReasons THEN Append(reasons, AlignsReason(c))
             ELSE reasons

Explanation(id, reasons) == [category_id |-> id, match_reasons |-> reasons]
\* generate_explanations: generate_explanation catches every exception of its
\* gateway call, so no category is skipped
GenerateExplanationsResult(c, categories, replies) ==
    [i \in 1..Len(categories) |-> Explanation(categories[i], GenerateExplanation(c, replies[i]))]

\* ---- the requests and the replies
ExplanationTexts ==
    {<< >>,
     <<" ", "\n", " ">>,
     <<"#", "x">>,
     <<"A">>,
     <<"A", "\n", "B">>,
     <<"A", "\n", "B", "\n", "C", "\n", "D">>,
     <<"#", "h", "\n", "-", " ", "A", "\n", "\n", "*", "B", "\n">>}
ExplanationReplies ==
    {GatewayText(t) : t \in ExplanationTexts} \cup {GatewayRaised(e) : e \in AttemptErrors}
ExplainContexts == {EmptyContext, DescribedContext, CompleteContext}
CategoryLists == {[i \in 1..n |-> i] : n \in 0..MaxCategories}

ExplainInit ==
    /\ StreamIdle
    /\ GwIdle
    /\ ClassifyIdle
    /\ ValidateIdle
    /\ ExtractIdle
    /\ MergeIdle
    /\ QuestionIdle
    /\ PromptIdle
    /\ TurnsIdle
    /\ xCtx \in ExplainContexts
    /\ xCategories \in CategoryLists
    /\ xReplies = << >>
    /\ xOut = << >>
    /\ xPc = "ready"

\* one call of generate_explanations(xCtx, xCategories), with the gateway
\* call made for each category
GenerateExplanations ==
    /\ xPc = "ready"
    /\ \E replies \in [1..Len(xCategories) -> ExplanationReplies] :
          /\ xReplies' = replies
          /\ xOut' = GenerateExplanationsResult(xCtx, xCategories, replies)
    /\ xPc' = "done"
    /\ UNCHANGED <<xCtx, xCategories>>
    /\ UNCHANGED nonExplainVars

ExplainNext ==
    \/ GenerateExplanations

SpecExplain == ExplainInit /\ [][ExplainNext]_vars

\* ------------------------------------------------------------------------
\* Properties of the match explanations
\* ------------------------------------------------------------------------
\* C24: every entry generate_explanations returns carries at least 2 and at
\* most 3 match reasons, for every reply of the model (an empty reply, a
\* one-line reply, a reply of more than three lines) and when the gateway
\* call fails.
C24_TwoToThreeReasons ==
    xPc = "done" =>
        \A i \in 1..Len(xOut) :
            /\ Len(xOut[i].match_reasons) >= 2
            /\ Len(xOut[i].match_reasons) <= 3

\* the upper bound, and the lower bound where the gateway call failed or the
\* reply holds at least one reason line
ReasonCounts ==
    xPc = "done" =>
        \A i \in 1..Len(xOut) :
            /\ Len(xOut[i].match_reasons) <= 3
            /\ xReplies[i].kind = "raised" => Len(xOut[i].match_reasons) = 2
            /\ (xReplies[i].kind = "text" /\ ParseReasons(xReplies[i].text) # << >>)
                  => Len(xOut[i].match_reasons) >= 2
            /\ (xReplies[i].kind = "text" /\ ParseReasons(xReplies[i].text) = << >>)
                  => Len(xOut[i].match_reasons) = 1

\* ------------------------------------------------------------------------
\* Concurrent turns: calls of extract_fields in flight on one event loop
\* ------------------------------------------------------------------------
ConcurrentTurns == 2
Turns == 1..ConcurrentTurns

\* A call of the coroutine extract_fields keeps its parameters and locals in
\* a frame of its own; the service object and the gateway client hold no
\* per-call state.
SharedFrame(t) == 1
FrameOf(t) == t

FreeFrame == [held |-> FALSE, context |-> EmptyContext]
Frame(c) == [held |-> TRUE, context |-> c]
NotReplied == [reply |-> NoReply, during |-> {}]

TurnContexts == {EmptyContext, DescribedContext, AlmostCompleteContext}
TurnReplies ==
    {ExtractReply("object", Pair("org_type", JStr(OrganizationType[2].value))),
     ExtractReply("object", Pair("description", JStr(DescMarketing))),
     ExtractReply("text", EmptyMap),
     ExtractReply("raised", EmptyMap)}

TurnsInit ==
    /\ StreamIdle
    /\ GwIdle
    /\ ClassifyIdle
    /\ ValidateIdle
    /\ ExtractIdle
    /\ MergeIdle
    /\ QuestionIdle
    /\ PromptIdle
    /\ ExplainIdle
    /\ tCtx \in [Turns -> TurnContexts]
    /\ tPc = [t \in Turns |-> "ready"]
    /\ tFrame = [t \in Turns |-> FreeFrame]
    /\ tReply = [t \in Turns |-> NotReplied]
    /\ tOut = [t \in Turns |-> NoOutcome]

\* extract_fields is called for turn t and runs to its await: the prompts are
\* built and chat_completion is awaited
TurnStart(t) ==
    /\ tPc[t] = "ready"
    /\ tFrame' = [tFrame EXCEPT ![FrameOf(t)] = Frame(tCtx[t])]
    /\ tPc' = [tPc EXCEPT ![t] = "awaiting"]
    /\ UNCHANGED <<tCtx, tReply, tOut>>
    /\ UNCHANGED nonTurnVars

\* the gateway call of turn t comes back and extract_fields runs from its
\* await to its return, on the context its frame holds
TurnResume(t) ==
    /\ tPc[t] = "awaiting"
    /\ \E reply \in TurnReplies :
          /\ tReply' = [tReply EXCEPT ![t] =
                          [reply |-> reply,
                           during |-> {u \in Turns \ {t} : tPc[u] = "awaiting"}]]
          /\ \E out \in ExtractOutcomes(tFrame[FrameOf(t)].context, reply) :
                tOut' = [tOut EXCEPT ![t] = out]
    /\ tPc' = [tPc EXCEPT ![t] = "done"]
    /\ UNCHANGED <<tCtx, tFrame>>
    /\ UNCHANGED nonTurnVars

TurnsNext ==
    \/ \E t \in Turns : TurnStart(t)
    \/ \E t \in Turns : TurnResume(t)

SpecTurns == TurnsInit /\ [][TurnsNext]_vars

====
